---- MODULE Spec2Model ----
(***************************************************************************)
(* PhishGuard: the heuristic URL analyzer, the ensemble combiner and the   *)
(* phone analyzer (src/backend/ml/heuristic_analyzer.py,                   *)
(* src/backend/ml/phone_analyzer.py, src/backend/ml/features.py).          *)
(*                                                                         *)
(* Strings are TLA+ strings, taken apart character by character, so that   *)
(* substring tests, splitting and edit distance are computed as the code   *)
(* computes them.  Scores and severities are exact fixed-point numbers: 1.0 is One  *)
(* = 600000 units, so that 0.01 (one severity step), 0.0001 (one step of   *)
(* round(x, 4)) and the mean of up to five severities are all integers.    *)
(***************************************************************************)
EXTENDS Integers, Sequences, FiniteSets, TLC

\* ------------------------------------------------------------------ bounds
\* Longest issue list handed to the aggregator / the combiner directly.
MaxIssues == 6
\* Most subdomain labels put in front of a canonical domain.
MaxExtraLabels == 2
\* Most issues in a list that is aggregated and then combined.
MaxEnsembleIssues == 3
\* Most URL analyses that run at the same time in the server's thread pool.
MaxRequests == 2
\* Most forms in a document.
MaxForms == 2
\* The calls of start_osint_scanner and stop_osint_scanner that are followed.
MaxCalls == 6
\* The links of one message.
MaxUrls == 3

\* ------------------------------------------------------- fixed-point numbers
One == 60 * 10000
\* p hundredths (a severity such as 0.85 is Sev(85)).
Sev(p) == p * 6000
\* n ten-thousandths (a value with four decimals, 0.935 is Dec4(9350)).
Dec4(n) == n * 60

Min2(a, b) == IF a < b THEN a ELSE b
Max2(a, b) == IF a > b THEN a ELSE b

\* round(x, 4) as a set: the nearest multiple of 0.0001.  At an exact decimal
\* tie the binary floating point value lies on either side, so both
\* neighbours are possible results.
Round4(x) ==
    LET q == x \div 60
        r == x % 60
    IN  IF r < 30 THEN {q * 60}
        ELSE IF r > 30 THEN {(q + 1) * 60}
        ELSE {q * 60, (q + 1) * 60}

RECURSIVE SumSeq(_)
SumSeq(s) == IF s = <<>> THEN 0 ELSE Head(s) + SumSeq(Tail(s))

\* sorted(xs, reverse=True): insertion into a descending sequence.
RECURSIVE InsertDesc(_, _)
InsertDesc(x, s) ==
    IF s = <<>> THEN <<x>>
    ELSE IF x >= Head(s) THEN <<x>> \o s
    ELSE <<Head(s)>> \o InsertDesc(x, Tail(s))

\* A variant that leaves the severities in the order of the issue list.
SortedDescKeepOrder(s) == s

RECURSIVE SortedDesc(_)
SortedDesc(s) == IF s = <<>> THEN <<>> ELSE InsertDesc(Head(s), SortedDesc(Tail(s)))

\* ------------------------------------------------------------------ strings
\* Python's str operations on ASCII strings.  Len, SubSeq, Tail and \o act
\* on strings; a character is a string of length 1.
CharAt(s, i) == SubSeq(s, i, i)

\* s[i:] with a 1-based first index.
From(s, i) == SubSeq(s, i, Len(s))

\* sub in s
Contains(s, sub) ==
    \E i \in 1..(Len(s) - Len(sub) + 1) : SubSeq(s, i, i + Len(sub) - 1) = sub

\* s.find(sub) + 1: the 1-based index of the first occurrence, 0 if none.
Find(s, sub) ==
    IF Contains(s, sub)
    THEN CHOOSE i \in 1..(Len(s) - Len(sub) + 1) :
             /\ SubSeq(s, i, i + Len(sub) - 1) = sub
             /\ \A j \in 1..(i - 1) : SubSeq(s, j, j + Len(sub) - 1) # sub
    ELSE 0

\* s.rfind(ch) + 1 for a single character.
RFind(s, ch) ==
    IF Contains(s, ch)
    THEN CHOOSE i \in 1..Len(s) :
             CharAt(s, i) = ch /\ \A j \in (i + 1)..Len(s) : CharAt(s, j) # ch
    ELSE 0

StartsWith(s, p) == Len(p) <= Len(s) /\ SubSeq(s, 1, Len(p)) = p
EndsWith(s, p) == Len(p) <= Len(s) /\ SubSeq(s, Len(s) - Len(p) + 1, Len(s)) = p

\* s.count(ch) for a single character.
CountChar(s, ch) == Cardinality({i \in 1..Len(s) : CharAt(s, i) = ch})

\* s.split(sep) for a single-character separator.
RECURSIVE Split(_, _)
\* The split of s whose first separator is at index i (0: there is none).
SplitAt(s, sep, i) ==
    IF i = 0 THEN <<s>>
    ELSE <<SubSeq(s, 1, i - 1)>> \o Split(From(s, i + 1), sep)
Split(s, sep) == SplitAt(s, sep, Find(s, sep))

\* sep.join(parts)
RECURSIVE Join(_, _)
Join(parts, sep) ==
    IF parts = <<>> THEN ""
    ELSE IF Len(parts) = 1 THEN parts[1]
    ELSE parts[1] \o sep \o Join(Tail(parts), sep)

\* parts[-n:]
LastN(parts, n) == SubSeq(parts, Max2(1, Len(parts) - n + 1), Len(parts))

UPPER == "ABCDEFGHIJKLMNOPQRSTUVWXYZ"
LOWER == "abcdefghijklmnopqrstuvwxyz"
DIGITS == "0123456789"

IsLetter(c) == Contains(UPPER, c) \/ Contains(LOWER, c)
\* \w of the re module, on ASCII.
WORD_CHARS == UPPER \o LOWER \o DIGITS \o "_"
\* Every character of s is one of chars.
AllIn(s, chars) == \A i \in 1..Len(s) : Contains(chars, CharAt(s, i))

LowerChar(c) == IF Contains(UPPER, c) THEN CharAt(LOWER, Find(UPPER, c)) ELSE c

\* s.lower()
RECURSIVE Lower(_)
Lower(s) ==
    IF s = "" THEN ""
    ELSE IF Len(s) = 1 THEN LowerChar(s)
    ELSE Lower(SubSeq(s, 1, Len(s) \div 2)) \o Lower(From(s, Len(s) \div 2 + 1))

UpperChar(c) == IF Contains(LOWER, c) THEN CharAt(UPPER, Find(LOWER, c)) ELSE c

\* s.upper()
RECURSIVE Upper(_)
Upper(s) ==
    IF s = "" THEN ""
    ELSE IF Len(s) = 1 THEN UpperChar(s)
    ELSE Upper(SubSeq(s, 1, Len(s) \div 2)) \o Upper(From(s, Len(s) \div 2 + 1))

\* s.strip(): the whitespace of the inputs is the space.
RECURSIVE LStrip(_)
LStrip(s) == IF s # "" /\ CharAt(s, 1) = " " THEN LStrip(Tail(s)) ELSE s
RECURSIVE RStrip(_, _)
RStrip(s, ch) ==
    IF s # "" /\ CharAt(s, Len(s)) = ch THEN RStrip(SubSeq(s, 1, Len(s) - 1), ch) ELSE s
Strip(s) == RStrip(LStrip(s), " ")

\* x in xs, for a list.
InList(x, xs) == \E i \in 1..Len(xs) : xs[i] = x

\* The concatenation of a sequence of sequences.
RECURSIVE FlattenRange(_, _, _)
FlattenRange(ss, lo, hi) ==
    IF lo > hi THEN <<>>
    ELSE IF lo = hi THEN ss[lo]
    ELSE FlattenRange(ss, lo, (lo + hi) \div 2) \o FlattenRange(ss, (lo + hi) \div 2 + 1, hi)
Flatten(ss) == FlattenRange(ss, 1, Len(ss))

\* ------------------------------------------------------- the brand registry
\* BRAND_DOMAINS (lines 19-71), in the dict's iteration order.
BRAND_DOMAINS == <<
    [brand |-> "google", official_domains |-> <<"google.com", "google.kz", "google.ru", "googleapis.com", "gstatic.com">>],
    [brand |-> "apple", official_domains |-> <<"apple.com", "icloud.com", "appleid.apple.com">>],
    [brand |-> "microsoft", official_domains |-> <<"microsoft.com", "live.com", "outlook.com", "office.com", "office365.com", "microsoftonline.com">>],
    [brand |-> "amazon", official_domains |-> <<"amazon.com", "amazon.co.uk", "amazon.de", "aws.amazon.com">>],
    [brand |-> "facebook", official_domains |-> <<"facebook.com", "fb.com", "messenger.com", "meta.com">>],
    [brand |-> "instagram", official_domains |-> <<"instagram.com">>],
    [brand |-> "twitter", official_domains |-> <<"twitter.com", "x.com">>],
    [brand |-> "whatsapp", official_domains |-> <<"whatsapp.com", "web.whatsapp.com">>],
    [brand |-> "telegram", official_domains |-> <<"telegram.org", "web.telegram.org", "t.me">>],
    [brand |-> "netflix", official_domains |-> <<"netflix.com">>],
    [brand |-> "paypal", official_domains |-> <<"paypal.com", "paypal.me">>],
    [brand |-> "ebay", official_domains |-> <<"ebay.com">>],
    [brand |-> "linkedin", official_domains |-> <<"linkedin.com">>],
    [brand |-> "youtube", official_domains |-> <<"youtube.com", "youtu.be">>],
    [brand |-> "tiktok", official_domains |-> <<"tiktok.com">>],
    [brand |-> "discord", official_domains |-> <<"discord.com", "discord.gg", "discordapp.com">>],
    [brand |-> "zoom", official_domains |-> <<"zoom.us", "zoom.com">>],
    [brand |-> "spotify", official_domains |-> <<"spotify.com">>],
    [brand |-> "github", official_domains |-> <<"github.com", "github.io">>],
    [brand |-> "dropbox", official_domains |-> <<"dropbox.com">>],
    [brand |-> "reddit", official_domains |-> <<"reddit.com">>],
    [brand |-> "kaspi", official_domains |-> <<"kaspi.kz", "kaspi.com">>],
    [brand |-> "halyk", official_domains |-> <<"halykbank.kz", "homebank.kz">>],
    [brand |-> "halykbank", official_domains |-> <<"halykbank.kz", "homebank.kz">>],
    [brand |-> "homebank", official_domains |-> <<"homebank.kz">>],
    [brand |-> "egov", official_domains |-> <<"egov.kz">>],
    [brand |-> "forte", official_domains |-> <<"forte.kz", "fortebank.com">>],
    [brand |-> "fortebank", official_domains |-> <<"forte.kz", "fortebank.com">>],
    [brand |-> "jusan", official_domains |-> <<"jysanbank.kz", "jusan.kz">>],
    [brand |-> "bereke", official_domains |-> <<"berekebank.kz">>],
    [brand |-> "freedom", official_domains |-> <<"ffin.kz", "freedomfinance.kz", "freedom24.com">>],
    [brand |-> "kolesa", official_domains |-> <<"kolesa.kz">>],
    [brand |-> "krisha", official_domains |-> <<"krisha.kz">>],
    [brand |-> "olx", official_domains |-> <<"olx.kz">>],
    [brand |-> "sberbank", official_domains |-> <<"sberbank.ru", "online.sberbank.ru", "sber.ru">>],
    [brand |-> "sber", official_domains |-> <<"sberbank.ru", "sber.ru">>],
    [brand |-> "tinkoff", official_domains |-> <<"tinkoff.ru", "tinkoff.com">>],
    [brand |-> "vtb", official_domains |-> <<"vtb.ru">>],
    [brand |-> "yandex", official_domains |-> <<"yandex.ru", "yandex.kz", "ya.ru">>],
    [brand |-> "mail", official_domains |-> <<"mail.ru">>],
    [brand |-> "vk", official_domains |-> <<"vk.com", "vk.ru">>],
    [brand |-> "ozon", official_domains |-> <<"ozon.ru">>],
    [brand |-> "wildberries", official_domains |-> <<"wildberries.ru", "wb.ru">>],
    [brand |-> "avito", official_domains |-> <<"avito.ru">>],
    [brand |-> "canva", official_domains |-> <<"canva.com">>],
    [brand |-> "figma", official_domains |-> <<"figma.com">>],
    [brand |-> "trello", official_domains |-> <<"trello.com">>],
    [brand |-> "notion", official_domains |-> <<"notion.so", "notion.site">>]
>>

\* ------------------------------------------------------ urllib.parse.urlparse
\* The standard library's urlparse on ASCII input, as called at lines 199 and
\* 504: [error |-> TRUE] stands for the ValueError it raises.
SCHEME_CHARS == LOWER \o UPPER \o DIGITS \o "+-."

\* Schemes for which urlparse splits ";params" off the path: the ones the
\* inputs can carry.
USES_PARAMS == {"", "ftp", "http", "https"}

SetMin(S) == CHOOSE x \in S : \A y \in S : x <= y

\* _splitnetloc(url, 2): the 1-based index of the last character of the
\* netloc of a url that starts with "//".
\* ds: where a delimiter occurs in url[2:].
NetlocEndAt(url, ds) == IF ds = {} THEN Len(url) ELSE 2 + SetMin(ds) - 1
NetlocEnd(url) == NetlocEndAt(url, {Find(From(url, 3), c) : c \in {"/", "?", "#"}} \ {0})

\* _check_bracketed_host accepts an IP literal only: the one of the inputs.
IsBracketedHostValid(h) == h \in {"::1"}

\* url.split(sep, 1)[0] and [1]
Before(s, sep) == IF Contains(s, sep) THEN SubSeq(s, 1, Find(s, sep) - 1) ELSE s
After(s, sep) == IF Contains(s, sep) THEN From(s, Find(s, sep) + 1) ELSE ""

\* _splitparams(url)[0]
\* from: the index of the last "/" of url, 1 if there is none.
SplitParamsAt(url, from) ==
    IF Contains(From(url, from), ";")
    THEN SubSeq(url, 1, from - 1 + Find(From(url, from), ";") - 1)
    ELSE url
SplitParamsPath(url) == SplitParamsAt(url, Max2(RFind(url, "/"), 1))

\* The steps of urlsplit, each handing what it has split off to the next.
\* The netloc has unbalanced brackets or a bracketed host that is no IP literal.
NetlocError(netloc) ==
    \/ Contains(netloc, "[") /\ ~Contains(netloc, "]")
    \/ Contains(netloc, "]") /\ ~Contains(netloc, "[")
    \/ /\ Contains(netloc, "[") /\ Contains(netloc, "]")
       /\ ~IsBracketedHostValid(Before(After(netloc, "["), "]"))

UrlPath(scheme, url) ==
    IF scheme \in USES_PARAMS /\ Contains(url, ";") THEN SplitParamsPath(url) ELSE url

\* url: what follows the netloc.
UrlSplitRest(scheme, netloc, url) ==
    [error |-> NetlocError(netloc), scheme |-> scheme, netloc |-> netloc,
     path |-> UrlPath(scheme, Before(Before(url, "#"), "?")),
     query |-> After(Before(url, "#"), "?"), fragment |-> After(url, "#")]

\* url: what follows the scheme.
UrlSplitNetloc(scheme, url) ==
    IF StartsWith(url, "//")
    THEN UrlSplitRest(scheme, SubSeq(url, 3, NetlocEnd(url)), From(url, NetlocEnd(url) + 1))
    ELSE UrlSplitRest(scheme, "", url)

\* i: the index of the first ":" of url, 0 if there is none.
HasScheme(url, i) ==
    /\ i > 1
    /\ IsLetter(CharAt(url, 1))
    /\ AllIn(SubSeq(url, 1, i - 1), SCHEME_CHARS)

UrlSplitScheme(url, i) ==
    IF HasScheme(url, i)
    THEN UrlSplitNetloc(Lower(SubSeq(url, 1, i - 1)), From(url, i + 1))
    ELSE UrlSplitNetloc("", url)

UrlSplit(url) == UrlSplitScheme(url, Find(url, ":"))

UrlParse(url0) == UrlSplit(LStrip(url0))

\* ------------------------------------------------ edit distance (lines 118-134)
Min3(a, b, c) == Min2(a, Min2(b, c))

\* The inner loop: curr_row after the characters j.. of s2 (j is 1-based).
RECURSIVE LevCurrRow(_, _, _, _, _)
LevCurrRow(curr_row, prev_row, c1, s2, j) ==
    IF j > Len(s2) THEN curr_row
    ELSE LET insertions == prev_row[j + 1] + 1
             deletions == curr_row[j] + 1
             substitutions == prev_row[j] + (IF c1 # CharAt(s2, j) THEN 1 ELSE 0)
         IN  LevCurrRow(Append(curr_row, Min3(insertions, deletions, substitutions)),
                        prev_row, c1, s2, j + 1)

\* The outer loop: prev_row after the characters i.. of s1 (i is 1-based).
\* (TLC passes an operator's arguments unevaluated; binding curr_row through
\* a singleton set evaluates each row before the next one is started.)
RECURSIVE LevRows(_, _, _, _)
LevRows(prev_row, s1, s2, i) ==
    IF i > Len(s1) THEN prev_row
    ELSE CHOOSE last \in {LevRows(curr_row, s1, s2, i + 1) :
                 curr_row \in {LevCurrRow(<<i>>, prev_row, CharAt(s1, i), s2, 1)}} : TRUE

levenshtein_distance(a, b) ==
    LET s1 == IF Len(a) < Len(b) THEN b ELSE a
        s2 == IF Len(a) < Len(b) THEN a ELSE b
    IN  IF Len(s2) = 0 THEN Len(s1)
        ELSE LevRows([k \in 1..(Len(s2) + 1) |-> k - 1], s1, s2, 1)[Len(s2) + 1]

\* ------------------------------------------- domain helpers (lines 137-158)
\* Lines 140-141.
StripWww(d) == IF StartsWith(d, "www.") THEN From(d, 5) ELSE d
\* A variant that leaves the port.
StripPortKept(d) == d

\* Lines 143-144.
StripPort(d) == IF Contains(d, ":") THEN Split(d, ":")[1] ELSE d
normalize_domain(domain) == StripPort(StripWww(Strip(Lower(domain))))

COUNTRY_SECOND == <<".co.", ".com.", ".org.", ".net.", ".gov.", ".edu.">>

\* Lines 150-158 with parts = domain.split('.').
BaseOfParts(domain, parts) ==
    LET rejoined == "." \o Join(LastN(parts, 2), ".")
    IN  IF Len(parts) <= 2 THEN domain
        ELSE IF \E k \in 1..Len(COUNTRY_SECOND) :
                    StartsWith(rejoined, RStrip(COUNTRY_SECOND[k], "."))
             THEN Join(LastN(parts, 3), ".")
        ELSE Join(LastN(parts, 2), ".")
extract_base_domain(domain) == BaseOfParts(domain, Split(domain, "."))

\* ------------------------------- check_brand_impersonation (lines 161-209)
\* Lines 186-196: the subdomain labels parts[:-2] that carry the brand.
SubdomainIssues(b, domain_parts) ==
    IF Len(domain_parts) > 2
    THEN Flatten([k \in 1..(Len(domain_parts) - 2) |->
            IF Contains(domain_parts[k], b.brand) /\ Len(b.brand) >= 4
            THEN <<[type |-> "brand_in_subdomain", severity |-> Sev(85), brand |-> b.brand]>>
            ELSE <<>>])
    ELSE <<>>

\* Lines 176-207: the issues one pass of the loop body appends for the
\* registry entry b.
BrandIssues(b, domain_lower, base_domain, path_lower) ==
    (IF Contains(domain_lower, b.brand)
     THEN <<[type |-> "brand_impersonation", severity |-> Sev(90), brand |-> b.brand]>>
     ELSE <<>>)
    \o SubdomainIssues(b, Split(domain_lower, "."))
    \o (IF /\ Contains(path_lower, b.brand)
           /\ Len(b.brand) >= 4
           /\ ~InList(base_domain, b.official_domains)
        THEN <<[type |-> "brand_in_path", severity |-> Sev(70), brand |-> b.brand]>>
        ELSE <<>>)

\* Lines 171-174: the pass for b is skipped.
BrandSkipped(b, domain_lower, base_domain) ==
    \/ InList(base_domain, b.official_domains)
    \/ InList(domain_lower, b.official_domains)

\* Lines 171-209 with the locals of lines 167-168 and parsed = urlparse(url_lower)
\* of line 199, which each pass that is not skipped evaluates:
\* [raised |-> TRUE] when it raises ValueError.
BrandLoop(domain_lower, base_domain, parsed) ==
    IF /\ parsed.error
       /\ \E k \in 1..Len(BRAND_DOMAINS) :
              ~BrandSkipped(BRAND_DOMAINS[k], domain_lower, base_domain)
    THEN [raised |-> TRUE, issues |-> <<>>]
    ELSE [raised |-> FALSE,
          issues |-> Flatten([k \in 1..Len(BRAND_DOMAINS) |->
                        IF BrandSkipped(BRAND_DOMAINS[k], domain_lower, base_domain)
                        THEN <<>>
                        ELSE BrandIssues(BRAND_DOMAINS[k], domain_lower,
                                         base_domain, parsed.path)])]

BrandCheck(domain_lower, parsed) ==
    BrandLoop(domain_lower, extract_base_domain(domain_lower), parsed)

check_brand_impersonation(url, domain) ==
    BrandCheck(normalize_domain(domain), UrlParse(Lower(url)))

\* ------------------------------------- check_typosquatting (lines 212-255)
\* abs(len(domain_name) - len(official_name)) > 3
LengthsFarApart(a, b) == Len(a) - Len(b) > 3 \/ Len(b) - Len(a) > 3

TypoIssue(b, official, distance) ==
    [type |-> "typosquatting",
     severity |-> IF distance = 1 THEN Sev(95) ELSE Sev(80),
     brand |-> b.brand, distance |-> distance, similar_to |-> official]

\* The loop over official_domains from index k on: best_match at its end,
\* <<>> standing for None.
RECURSIVE BestMatch(_, _, _, _, _)

\* A variant that accepts distance 3.
BestMatchAtUpTo3(b, domain_name, k, best_match, best_distance, official_name, distance) ==
    IF /\ 0 < distance /\ distance <= 3
       /\ Len(official_name) >= 4
       /\ distance < best_distance
    THEN BestMatch(b, domain_name, k + 1,
                   <<TypoIssue(b, b.official_domains[k], distance)>>, distance)
    ELSE BestMatch(b, domain_name, k + 1, best_match, best_distance)

\* Lines 241-250 for the k-th official domain, at the given distance.
BestMatchAt(b, domain_name, k, best_match, best_distance, official_name, distance) ==
    IF /\ 0 < distance /\ distance <= 2
       /\ Len(official_name) >= 4
       /\ distance < best_distance
    THEN BestMatch(b, domain_name, k + 1,
                   <<TypoIssue(b, b.official_domains[k], distance)>>, distance)
    ELSE BestMatch(b, domain_name, k + 1, best_match, best_distance)

\* Lines 232-238 for the k-th official domain.
BestMatchStep(b, domain_name, k, best_match, best_distance, official_name) ==
    IF LengthsFarApart(domain_name, official_name)
    THEN BestMatch(b, domain_name, k + 1, best_match, best_distance)
    ELSE BestMatchAt(b, domain_name, k, best_match, best_distance, official_name,
                     levenshtein_distance(domain_name, official_name))

BestMatch(b, domain_name, k, best_match, best_distance) ==
    IF k > Len(b.official_domains) THEN best_match
    ELSE BestMatchStep(b, domain_name, k, best_match, best_distance,
                       Split(b.official_domains[k], ".")[1])

\* Lines 221-255 with base_domain of line 220.
TypoLoop(base_domain) ==
    LET domain_name == Split(base_domain, ".")[1]
    IN  Flatten([k \in 1..Len(BRAND_DOMAINS) |->
            IF InList(base_domain, BRAND_DOMAINS[k].official_domains) THEN <<>>
            ELSE BestMatch(BRAND_DOMAINS[k], domain_name, 1, <<>>, 999)])

check_typosquatting(domain) == TypoLoop(extract_base_domain(normalize_domain(domain)))

\* ----------------------------------------- check_url_patterns (lines 287-485)
\* HIGHLY_SUSPICIOUS_TLDS (lines 75-82).
HIGHLY_SUSPICIOUS_TLDS == <<
    ".tk", ".ml", ".ga", ".cf", ".gq", ".xyz", ".top", ".win",
    ".bid", ".stream", ".racing", ".download", ".loan", ".date", ".faith", ".review",
    ".science", ".party", ".click", ".link", ".work", ".buzz", ".rest", ".monster",
    ".surf", ".icu", ".cam", ".quest", ".cfd", ".sbs", ".autos", ".boats">>

\* CASINO_KEYWORDS (lines 109-115): its ASCII entries.  The Cyrillic entries
\* never occur in an ASCII url and are left out.
CASINO_KEYWORDS == <<
    "casino", "vulkan", "vulcan", "1xbet", "betting", "stavki", "azino", "joycasino",
    "sloty", "slots", "spin", "jackpot", "pinup", "1win", "melbet", "parimatch",
    "olimpbet", "fonbet", "win", "lotto", "lottery">>

TRUSTED_LONG_PLATFORMS ==
    <<"canva.com", "figma.com", "google.com", "microsoft.com", "sharepoint.com">>

PHISHING_PATH_KEYWORDS == <<
    "login", "signin", "sign-in", "log-in", "verify", "confirm",
    "update", "secure", "account", "banking", "password", "credential",
    "authenticate", "validate", "authorize", "restore", "recover",
    "suspend", "restrict", "unlock", "reactivate", "identity",
    "webscr", "cmd=login", "wp-admin", "admin/login">>

DANGEROUS_EXTS == <<"exe", "bat", "cmd", "scr", "js", "vbs", "ps1", "msi", "com">>

SHORTENERS == <<
    "bit.ly", "tinyurl.com", "goo.gl", "t.co", "ow.ly", "is.gd",
    "buff.ly", "rebrand.ly", "cutt.ly", "shorturl.at", "rb.gy",
    "tinycc.com", "short.io", "v.gd", "clck.ru", "qps.ru">>

\* The literal parts of redirect_patterns; each is followed by [=\?].
REDIRECT_WORDS == <<"redirect", "url", "next", "goto", "return", "dest", "link", "target">>

\* The characters of [а-яА-ЯёЁіІғҒүҮұҰқҚөӨңНäÄ] that an ASCII string can hold.
CYRILLIC == ""

HEX_DIGITS == "0123456789abcdefABCDEF"

\* any(kw in s for kw in kws)
AnyIn(kws, s) == \E k \in 1..Len(kws) : Contains(s, kws[k])

\* sum(1 for kw in kws if kw in s)
CountIn(kws, s) == Cardinality({k \in 1..Len(kws) : Contains(s, kws[k])})

\* re.match(r'^(\d{1,3}\.){3}\d{1,3}$', s)
IsIpParts(parts) ==
    /\ Len(parts) = 4
    /\ \A k \in 1..4 : /\ Len(parts[k]) >= 1 /\ Len(parts[k]) <= 3
                       /\ AllIn(parts[k], DIGITS)
IsIpAddress(s) == IsIpParts(Split(s, "."))

\* len(re.findall(r'%[0-9a-fA-F]{2}', url))
EncodedChars(url) ==
    Cardinality({i \in 1..(Len(url) - 2) :
        /\ CharAt(url, i) = "%"
        /\ Contains(HEX_DIGITS, CharAt(url, i + 1))
        /\ Contains(HEX_DIGITS, CharAt(url, i + 2))})

\* The second group of re.search(r'\.(\w{2,4})\.(\w{2,4})$', path), "" if
\* the pattern does not match.
IsExt(e) == Len(e) >= 2 /\ Len(e) <= 4 /\ AllIn(e, WORD_CHARS)
DoubleExtensionOf(parts) ==
    IF Len(parts) >= 3 /\ IsExt(parts[Len(parts) - 1]) /\ IsExt(parts[Len(parts)])
    THEN parts[Len(parts)] ELSE ""
DoubleExtension(path) == DoubleExtensionOf(Split(path, "."))

\* The digits of re.search(r':(\d+)$', domain), "" if the pattern does not match.
PortDigitsOf(parts) ==
    IF Len(parts) >= 2 /\ parts[Len(parts)] # "" /\ AllIn(parts[Len(parts)], DIGITS)
    THEN parts[Len(parts)] ELSE ""
PortDigits(domain) == PortDigitsOf(Split(domain, ":"))

\* int(digits) in [80, 443]
RECURSIVE StripZeros(_)
StripZeros(d) == IF Len(d) > 1 /\ CharAt(d, 1) = "0" THEN StripZeros(Tail(d)) ELSE d
IsStandardPort(digits) == StripZeros(digits) \in {"80", "443"}

Issue(type, sev) == [type |-> type, severity |-> Sev(sev)]
When(cond, issue) == IF cond THEN <<issue>> ELSE <<>>

\* Lines 349-369.
SuspiciousPath(path_keyword_count) ==
    IF path_keyword_count >= 2 THEN <<Issue("suspicious_path", 70)>>
    ELSE IF path_keyword_count = 1 THEN <<Issue("suspicious_path", 35)>>
    ELSE <<>>

\* Lines 417-428: ext2 is the second extension, "" if there is none.
DoubleExtensionIssue(ext2) ==
    When(ext2 # "" /\ InList(Lower(ext2), DANGEROUS_EXTS), Issue("double_extension", 95))

\* Lines 451-461: port holds the digits after the last colon, "" if none.
UnusualPort(domain, port) ==
    When(Contains(domain, ":") /\ port # "" /\ ~IsStandardPort(port),
         Issue("unusual_port", 50))

\* Line 382.
DomainName(domain_lower) ==
    IF Contains(domain_lower, ".") THEN Split(domain_lower, ".")[1] ELSE domain_lower

\* Lines 296-485 with the locals of lines 292-294.
UrlPatternIssues(url, domain, domain_lower, path, url_lower) ==
    When(IsIpAddress(Split(domain_lower, ":")[1]), Issue("ip_address_domain", 85))
    \o When(Len(url) > 150 /\ ~AnyIn(TRUSTED_LONG_PLATFORMS, domain_lower),
            Issue("very_long_url", 40))
    \o When(Len(Split(domain_lower, ".")) - 2 >= 3, Issue("excessive_subdomains", 70))
    \o When(Contains(url, "@"), Issue("at_symbol_redirect", 90))
    \o When(EncodedChars(url) > 5, Issue("excessive_encoding", 60))
    \o When(~StartsWith(url_lower, "https://"), Issue("no_https", 50))
    \o SuspiciousPath(CountIn(PHISHING_PATH_KEYWORDS, Lower(path)))
    \o When(\E k \in 1..Len(HIGHLY_SUSPICIOUS_TLDS) :
                EndsWith(domain_lower, HIGHLY_SUSPICIOUS_TLDS[k]),
            Issue("suspicious_tld", 65))
    \o When(CountChar(DomainName(domain_lower), "-") >= 2, Issue("excessive_hyphens", 60))
    \o When(/\ \E i \in 1..Len(domain_lower) : IsLetter(CharAt(domain_lower, i))
            /\ \E i \in 1..Len(domain) : Contains(CYRILLIC, CharAt(domain, i)),
            Issue("mixed_scripts", 95))
    \o When(Contains(url_lower, "data:"), Issue("data_uri", 95))
    \o When(Contains(url_lower, "javascript:"), Issue("javascript_uri", 100))
    \o DoubleExtensionIssue(DoubleExtension(path))
    \o When(AnyIn(SHORTENERS, domain_lower), Issue("url_shortener", 40))
    \o When(Contains(domain_lower, "xn--"), Issue("punycode_domain", 80))
    \o UnusualPort(domain, PortDigits(domain))
    \o When(\E k \in 1..Len(REDIRECT_WORDS) :
                \/ Contains(url_lower, REDIRECT_WORDS[k] \o "=")
                \/ Contains(url_lower, REDIRECT_WORDS[k] \o "?"),
            Issue("redirect_parameter", 60))
    \o When(CountChar(domain_lower, ".") >= 4, Issue("many_dots", 50))

check_url_patterns(url, domain, parsed) ==
    UrlPatternIssues(url, domain, normalize_domain(domain), parsed.path, Lower(url))

\* ------------------------------------- check_casino_patterns (lines 258-284)
check_casino_patterns(url, domain) ==
    IF AnyIn(CASINO_KEYWORDS, normalize_domain(domain))
    THEN <<Issue("casino_gambling", 85)>>
    ELSE IF AnyIn(CASINO_KEYWORDS, Lower(url)) THEN <<Issue("casino_gambling", 60)>>
    ELSE <<>>

\* ------------------------------------------------- aggregation (lines 523-570)
\* A variant that keeps every severity.
TopSeveritiesKeepAll(severities) == severities

\* severities[:5]
TopSeverities(severities) == SubSeq(severities, 1, Min2(5, Len(severities)))

\* min(0.15, len(all_issues) * 0.03)
IssueBonus(all_issues) == Min2(Sev(15), Len(all_issues) * Sev(3))

\* Lines 539-543 on the kept severities.
ScoreOfTop(top_severities, issue_bonus) ==
    IF Len(top_severities) > 1
    THEN (top_severities[1] * 60) \div 100
         + (SumSeq(top_severities) * 25) \div (Len(top_severities) * 100)
         + issue_bonus
    ELSE (top_severities[1] * 85) \div 100 + issue_bonus

\* The value of `score` at line 545, before the rounding of the return.
HeuristicScore(all_issues) ==
    IF all_issues = <<>> THEN Sev(5)
    ELSE Min2(One, Max2(0,
            ScoreOfTop(TopSeverities(SortedDesc([i \in 1..Len(all_issues) |->
                                                    all_issues[i].severity])),
                       IssueBonus(all_issues))))

\* A variant whose first threshold is 0.35.
HeuristicVerdictShifted(s) ==
    IF s < Sev(35) THEN "safe"
    ELSE IF s < Sev(65) THEN "suspicious"
    ELSE "phishing"

\* Lines 548-553: the verdict of analyze_url_heuristic.
HeuristicVerdict(s) ==
    IF s < Sev(30) THEN "safe"
    ELSE IF s < Sev(65) THEN "suspicious"
    ELSE "phishing"

\* ------------------------------------- analyze_url_heuristic (lines 488-570)
\* Lines 498-501.
UrlToParse(url) ==
    IF StartsWith(url, "http://") \/ StartsWith(url, "https://") \/ StartsWith(url, "ftp://")
    THEN url ELSE "http://" \o url

\* Lines 511-512: parsed.netloc or parsed.path.split('/')[0], lowercased.
UrlDomain(parsed) ==
    Lower(IF parsed.netloc # "" THEN parsed.netloc ELSE Split(parsed.path, "/")[1])

UNPARSEABLE == [type |-> "unparseable", severity |-> Sev(100)]

\* Lines 523-570: what is returned for all_issues with the score of line 545,
\* the score still unrounded.
ScoredResult(all_issues, score) ==
    [outcome |-> "return", score |-> score, verdict |-> HeuristicVerdict(score),
     issues |-> all_issues]

\* Lines 515-521: brand is what check_brand_impersonation gave, other_issues
\* what the three detectors after it gave.
CollectIssues(brand, other_issues) ==
    IF brand.raised
    THEN [outcome |-> "raise", score |-> 0, verdict |-> "", issues |-> <<>>]
    ELSE ScoredResult(brand.issues \o other_issues,
                      HeuristicScore(brand.issues \o other_issues))

RunDetectors(url, domain, parsed) ==
    CollectIssues(check_brand_impersonation(url, domain),
                  check_typosquatting(domain)
                  \o check_url_patterns(url, domain, parsed)
                  \o check_casino_patterns(url, domain))

\* Lines 503-521 on the result of urlparse.
AnalyzeParsed(url, parsed) ==
    IF parsed.error
    THEN [outcome |-> "return", score |-> One, verdict |-> "phishing",
          issues |-> <<UNPARSEABLE>>]
    ELSE RunDetectors(url, UrlDomain(parsed), parsed)

\* The call up to its return statement: outcome "raise" when an exception
\* leaves the function, else the unrounded score, the verdict and the issues.
analyze_url_heuristic(url) == AnalyzeParsed(url, UrlParse(UrlToParse(url)))

\* --------------------------------------------- combine_scores (lines 573-613)
\* i.get('severity', 0)
GetSeverity(i) == IF "severity" \in DOMAIN i THEN i.severity ELSE 0

IsCritical(i) == GetSeverity(i) >= Sev(85)

\* A variant whose critical branch swaps the two weights.
CombineBranchSwapped(ml, h, heuristic_issues) ==
    IF Len(SelectSeq(heuristic_issues, IsCritical)) > 0 THEN (h * 3 + ml * 7) \div 10
    ELSE IF h > Sev(60) /\ ml > Sev(60)
         THEN (Max2(ml, h) * 9 + Min2(ml, h)) \div 10
    ELSE IF h > Sev(50) \/ ml > Sev(50)
         THEN (Max2(ml, h) * 6 + Min2(ml, h) * 4) \div 10
    ELSE (ml * 5 + h * 5) \div 10

\* final_score of lines 589-601, before line 603 rounds and clamps it.
CombineBranch(ml, h, heuristic_issues) ==
    LET has_critical == Len(SelectSeq(heuristic_issues, IsCritical)) > 0
    IN  IF has_critical THEN (h * 7 + ml * 3) \div 10
        ELSE IF h > Sev(60) /\ ml > Sev(60)
             THEN (Max2(ml, h) * 9 + Min2(ml, h)) \div 10
        ELSE IF h > Sev(50) \/ ml > Sev(50)
             THEN (Max2(ml, h) * 6 + Min2(ml, h) * 4) \div 10
        ELSE (ml * 5 + h * 5) \div 10

\* Line 603: min(1.0, max(0.0, round(final_score, 4))), as the set of results.
CombineFinal(branch) == {Min2(One, Max2(0, r)) : r \in Round4(branch)}

\* Lines 606-611: the verdict of combine_scores.
CombineVerdict(s) ==
    IF s < Sev(30) THEN "safe"
    ELSE IF s < Sev(65) THEN "suspicious"
    ELSE "phishing"

\* ------------------------------------------ features.py (lines 28-41, 100-116)
KNOWN_DOMAINS ==
    <<"google.com", "youtube.com", "facebook.com", "amazon.com", "apple.com",
      "microsoft.com", "twitter.com", "instagram.com", "linkedin.com",
      "netflix.com", "paypal.com", "ebay.com", "github.com", "reddit.com",
      "whatsapp.com", "telegram.org", "spotify.com", "discord.com", "zoom.us",
      "tiktok.com", "pinterest.com", "dropbox.com", "slack.com",
      "kaspi.kz", "halykbank.kz", "homebank.kz", "egov.kz", "gov.kz",
      "forte.kz", "jusan.kz", "kolesa.kz", "krisha.kz", "olx.kz",
      "sberbank.ru", "tinkoff.ru", "vtb.ru", "yandex.ru", "mail.ru",
      "vk.com", "ozon.ru", "wildberries.ru", "avito.ru">>

\* Lines 105-110 of features.py: the base _brand_name_in_domain compares.
FeaturesBase(domain_lower, parts) ==
    IF Len(parts) >= 2 THEN Join(LastN(parts, 2), ".") ELSE domain_lower
brand_name_in_domain_base(domain) == FeaturesBase(Lower(domain), Split(Lower(domain), "."))

\* Lines 112-116 of features.py.
BrandNameCount(domain_lower, base) ==
    Cardinality({k \in 1..Len(KNOWN_DOMAINS) :
        /\ Len(Split(KNOWN_DOMAINS[k], ".")[1]) >= 4
        /\ Contains(domain_lower, Split(KNOWN_DOMAINS[k], ".")[1])
        /\ ~InList(base, KNOWN_DOMAINS)})

\* Lines 100-116 of features.py: the count it returns.
brand_name_in_domain(domain) ==
    BrandNameCount(Lower(domain), brand_name_in_domain_base(domain))

\* --------------------------------------------------------- phone_analyzer.py
\* Lines 28-35, in dict order.
HIGH_RISK_PREFIXES == <<"+234", "+91", "+44", "+371", "+372", "+380">>

\* The characters of s that are in chars (keep) or that are not (~keep):
\* re.sub(<class>, '', s).
RECURSIVE FilterChars(_, _, _)
FilterChars(s, chars, keep) ==
    IF s = "" THEN ""
    ELSE IF Len(s) = 1 THEN (IF Contains(chars, s) = keep THEN s ELSE "")
    ELSE FilterChars(SubSeq(s, 1, Len(s) \div 2), chars, keep)
         \o FilterChars(From(s, Len(s) \div 2 + 1), chars, keep)

\* [\s\-\(\)] on the whitespace of the inputs, the space and the tab.
PHONE_SEPARATORS == " \t-()"

\* Lines 37-39.
clean_phone_number(phone) == FilterChars(phone, PHONE_SEPARATORS, FALSE)

\* Line 49.
PhoneDigits(phone) == FilterChars(clean_phone_number(phone), DIGITS, TRUE)

\* Lines 53-59: cleaned after the prefix normalisation.
PhoneNormalize(cleaned, digits) ==
    IF ~StartsWith(cleaned, "+") /\ StartsWith(digits, "7") THEN "+" \o cleaned
    ELSE IF ~StartsWith(cleaned, "+") /\ StartsWith(digits, "8") THEN "+7" \o Tail(digits)
    ELSE IF ~StartsWith(cleaned, "+") THEN "+" \o cleaned
    ELSE cleaned
PhoneCleaned(phone) == PhoneNormalize(clean_phone_number(phone), PhoneDigits(phone))

PhoneIssue(type, sev) == [type |-> type, severity |-> Sev(sev)]

\* Lines 75-84.
HasHighRiskPrefix(cleaned) ==
    \E k \in 1..Len(HIGH_RISK_PREFIXES) : StartsWith(cleaned, HIGH_RISK_PREFIXES[k])

\* Line 87.
IsCis(cleaned) ==
    StartsWith(cleaned, "+7") \/ StartsWith(cleaned, "+996") \/ StartsWith(cleaned, "+998")

\* Lines 61-103: the issues appended and, per issue, the tenths it adds to score.
PhoneChecksOf(cleaned, digits) ==
    When(Len(digits) < 10 \/ Len(digits) > 15,
         [issue |-> PhoneIssue("invalid_length", 80), add |-> 5])
    \o When(HasHighRiskPrefix(cleaned),
            [issue |-> PhoneIssue("high_risk_country", 70), add |-> 6])
    \o When(~IsCis(cleaned) /\ ~HasHighRiskPrefix(cleaned),
            [issue |-> PhoneIssue("foreign_number", 40), add |-> 3])
    \o When(StartsWith(cleaned, "+7800") \/ StartsWith(cleaned, "+7495")
            \/ StartsWith(cleaned, "+7499"),
            [issue |-> PhoneIssue("spoofed_bank_number", 50), add |-> 4])
PhoneChecks(phone) == PhoneChecksOf(PhoneCleaned(phone), PhoneDigits(phone))

\* score of lines 61-103: 0.1 plus the additions.
ScoreOfChecks(checks) ==
    (One \div 10) * (1 + SumSeq([k \in 1..Len(checks) |-> checks[k].add]))
PhoneScore(phone) == ScoreOfChecks(PhoneChecks(phone))

\* Lines 129-135.
PhoneVerdict(final_score) ==
    IF final_score * 10 < One * 3 THEN "safe"
    ELSE IF final_score * 100 < One * 65 THEN "suspicious"
    ELSE "phishing"

\* Whether a statement of analyze_phone binds the local name details before
\* lines 117 and 137 use it: none of lines 41-136 assigns it.
DetailsBound == FALSE

\* Lines 105-124: the learned model's part. With a model loaded, line 117
\* subscripts details inside the try block; unbound, that is a NameError the
\* except clause of line 120 catches, and final_score falls back to score.
\* ml is the score predict returned (line 113).
PhoneFinalScore(phone, loaded, ml) ==
    IF loaded /\ DetailsBound THEN Max2(PhoneScore(phone), ml) ELSE PhoneScore(phone)

\* Lines 126-145, final_score being capped: line 137 uses details.
PhoneResult(phone, checks, final_score) ==
    IF ~DetailsBound
    THEN [outcome |-> "raise", error |-> "NameError", score |-> final_score,
          verdict |-> PhoneVerdict(final_score), details |-> [error |-> ""]]
    ELSE [outcome |-> "return", error |-> "", score |-> final_score,
          verdict |-> PhoneVerdict(final_score),
          details |-> [cleaned_number |-> PhoneCleaned(phone),
                       issues |-> [k \in 1..Len(checks) |-> checks[k].issue],
                       total_issues |-> Len(checks)]]

\* Lines 41-145.
analyze_phone(phone, loaded, ml) ==
    IF PhoneDigits(phone) = ""
    THEN [outcome |-> "return", error |-> "", score |-> 0, verdict |-> "safe",
          details |-> [error |-> "No digits found"]]
    ELSE PhoneResult(phone, PhoneChecks(phone),
                     Min2(One, PhoneFinalScore(phone, loaded, ml)))

\* ---------------------------------------------------------- page_analyzer.py
\* Line 54: the seconds the blacklist snapshot stays fresh.
CACHE_SECONDS == 3600

\* Line 60: the stripped, non-empty lines of the feed.
FeedLines(text) ==
    LET lines == Split(text, "\n")
        NonEmpty(l) == l # ""
    IN  SelectSeq([i \in 1..Len(lines) |-> Strip(lines[i])], NonEmpty)

\* No request made.
NO_REQUEST == [outcome |-> "none", status_code |-> 0, text |-> ""]

\* Line 59: the request gave a response with status 200.
FetchSucceeded(r) == r.outcome = "response" /\ r.status_code = 200

\* A variant that forgets the snapshot when the request fails.
get_openphish_list_forgetful(cache, last, now, r) ==
    IF cache # <<>> /\ now - last < CACHE_SECONDS
    THEN [cache |-> cache, last |-> last, list |-> cache, requested |-> FALSE]
    ELSE IF FetchSucceeded(r)
    THEN [cache |-> FeedLines(r.text), last |-> now, list |-> FeedLines(r.text),
          requested |-> TRUE]
    ELSE [cache |-> <<>>, last |-> last, list |-> <<>>, requested |-> TRUE]

\* Lines 47-67, r being what requests.get does if it is called: the globals
\* after the call, the list returned, whether the request was made.
get_openphish_list(cache, last, now, r) ==
    IF cache # <<>> /\ now - last < CACHE_SECONDS
    THEN [cache |-> cache, last |-> last, list |-> cache, requested |-> FALSE]
    ELSE IF FetchSucceeded(r)
    THEN [cache |-> FeedLines(r.text), last |-> now, list |-> FeedLines(r.text),
          requested |-> TRUE]
    ELSE [cache |-> cache, last |-> last, list |-> cache, requested |-> TRUE]

OSINT_BLACKLIST == [type |-> "osint_blacklist", severity |-> Sev(100)]

\* Lines 76-85 on the result of urlparse(url); a ValueError of urlparse is
\* caught at line 86.
OsintIssues(url, parsed, phish_list) ==
    IF parsed.error THEN <<>>
    ELSE IF \/ \E k \in 1..Len(phish_list) : Contains(phish_list[k], Lower(parsed.netloc))
            \/ InList(url, phish_list)
         THEN <<OSINT_BLACKLIST>>
    ELSE <<>>

\* Lines 70-89, phish_list being what get_openphish_list returned.
check_domain_osint(url, phish_list) == OsintIssues(url, UrlParse(url), phish_list)

\* The document as the parser (BeautifulSoup, lines 126-142) presents it to
\* the checks: casino and phishing are the numbers of keyword patterns found
\* (lines 145-148, 164-167), forms the action attributes, iframes the src
\* attributes with is_large of line 277, hidden the outcome of lines 241-246
\* and right_click that of lines 255-258.
EMPTY_PAGE ==
    [casino |-> 0, phishing |-> 0, forms |-> <<>>, cc_inputs |-> FALSE,
     password_inputs |-> FALSE, total_links |-> 0, dead_links |-> 0, hidden |-> FALSE,
     right_click |-> FALSE, iframes |-> <<>>, meta_refresh |-> FALSE,
     js_redirect |-> FALSE]

\* Lines 191-192 and 269-270: urlparse is called on the attribute and raises.
AttributeFaults(attrs) ==
    \E k \in 1..Len(attrs) : StartsWith(attrs[k], "http") /\ UrlParse(attrs[k]).error

\* Lines 189-200.
FormIssues(forms, main_domain) ==
    Flatten([k \in 1..Len(forms) |->
        When(/\ StartsWith(forms[k], "http")
             /\ main_domain # ""
             /\ Lower(UrlParse(forms[k]).netloc) # ""
             /\ ~Contains(Lower(UrlParse(forms[k]).netloc), main_domain)
             /\ ~Contains(main_domain, Lower(UrlParse(forms[k]).netloc)),
             Issue("external_form_action", 85))])

\* Lines 280-281 on src_domain.
TRUSTED_IFRAMES == <<"youtube.com", "google.com/maps", "vimeo.com", "recaptcha">>

\* Lines 267-288.
IframeIssues(iframes, main_domain) ==
    Flatten([k \in 1..Len(iframes) |->
        When(/\ StartsWith(iframes[k].src, "http")
             /\ iframes[k].large
             /\ Lower(UrlParse(iframes[k].src).netloc) # ""
             /\ ~AnyIn(TRUSTED_IFRAMES, Lower(UrlParse(iframes[k].src).netloc))
             /\ ~Contains(Lower(UrlParse(iframes[k].src).netloc), main_domain),
             Issue("suspicious_iframe", 85))])

\* Lines 293-297.
IsTrustedBrand(main_domain) ==
    \E b \in 1..Len(BRAND_DOMAINS) :
    \E k \in 1..Len(BRAND_DOMAINS[b].official_domains) :
        \/ main_domain = BRAND_DOMAINS[b].official_domains[k]
        \/ EndsWith(main_domain, "." \o BRAND_DOMAINS[b].official_domains[k])

\* Lines 144-324 on a document whose attributes urlparse accepts: the issues
\* of the nine checks in their order.
PageIssues(doc, main_domain, trusted) ==
    When(doc.casino >= 2, Issue("casino_content", 95))
    \o When(doc.casino = 1, Issue("casino_content", 60))
    \o When(doc.phishing >= 2, Issue("phishing_content", 90))
    \o When(doc.phishing = 1, Issue("phishing_content", 50))
    \o FormIssues(doc.forms, main_domain)
    \o When(doc.cc_inputs, Issue("credit_card_form_detected", 70))
    \o When(doc.password_inputs, Issue("password_form_detected", 40))
    \o When(doc.total_links > 5 /\ doc.dead_links * 10 > doc.total_links * 4,
            Issue("high_dead_link_ratio", 65))
    \o When(doc.hidden, Issue("hidden_suspicious_content", 90))
    \o When(doc.right_click, Issue("right_click_disabled", 50))
    \o IframeIssues(doc.iframes, main_domain)
    \o When(~trusted /\ doc.meta_refresh, Issue("meta_refresh_redirect", 75))
    \o When(~trusted /\ doc.js_redirect, Issue("javascript_redirect", 40))

\* Lines 99-100.
PageUrl(url) ==
    IF StartsWith(url, "http://") \/ StartsWith(url, "https://") THEN url
    ELSE "http://" \o url

\* Lines 102-326 for the url of line 100 and what urlparse gives for it at
\* line 185. fetch "provided": html was passed in; "ok" and "fail": what
\* requests.get of line 111 does, which raises (and is caught at line 121)
\* for a url it cannot parse. outcome "raise": an exception leaves the call.
PageContent(parsed, doc, fetch, osint_issues) ==
    IF fetch = "fail" \/ (fetch = "ok" /\ parsed.error)
    THEN [outcome |-> "return", issues |-> osint_issues]
    ELSE IF \/ parsed.error
            \/ AttributeFaults(doc.forms)
            \/ AttributeFaults([k \in 1..Len(doc.iframes) |-> doc.iframes[k].src])
         THEN [outcome |-> "raise", issues |-> <<>>]
    ELSE [outcome |-> "return",
          issues |-> osint_issues
                     \o PageIssues(doc, Lower(parsed.netloc),
                                   IsTrustedBrand(Lower(parsed.netloc)))]

\* Lines 92-326, phish_list being what get_openphish_list returned.
analyze_page_content(url, doc, fetch, phish_list) ==
    PageContent(UrlParse(PageUrl(url)), doc, fetch,
                check_domain_osint(PageUrl(url), phish_list))

\* --------------------------------------------------------------- classifier.py
\* Lines 352-357: the verdict of PhishingClassifier.predict.
PredictVerdict(s) ==
    IF s < Sev(30) THEN "safe"
    ELSE IF s < Sev(70) THEN "suspicious"
    ELSE "phishing"

\* ---------------------------------------------------------------------- main.py
\* features.py lines 123-126: extract_url_features raises the ValueError of
\* its second urlparse call.
FeaturesRaise(url) ==
    /\ UrlParse("http://" \o url).error
    /\ Contains(url, "://") => UrlParse(url).error

\* Lines 488-498: the heuristic score recalculated over all issues, as the
\* set of values round can give.
Recalculated(issues) ==
    CombineFinal(ScoreOfTop(TopSeverities(SortedDesc([i \in 1..Len(issues) |->
                                                         GetSeverity(issues[i])])),
                            IssueBonus(issues)))

\* Lines 500-505.
ApiVerdict(h_score) ==
    IF h_score < Sev(30) THEN "safe"
    ELSE IF h_score < Sev(65) THEN "suspicious"
    ELSE "phishing"

\* What an endpoint gives back: the response, or the exception that leaves it.
Response(final_score, final_verdict, h_score, issues, method) ==
    [outcome |-> "return", error |-> "", score |-> final_score, verdict |-> final_verdict,
     heuristic_score |-> h_score, issues |-> issues, method |-> method]
Raised(error) ==
    [outcome |-> "raise", error |-> error, score |-> 0, verdict |-> "",
     heuristic_score |-> 0, issues |-> <<>>, method |-> ""]

\* Lines 513-574: the learned model's part and the response, as the set of
\* outcomes. fault: url_classifier.predict raises; ml: the score it gives.
UrlEnsemble(h_score, h_verdict, issues, url, trained, fault, ml) ==
    IF FeaturesRaise(url) THEN {Raised("ValueError")}
    ELSE IF ~trained
    THEN {Response(h_score, h_verdict, h_score, issues,
                   "Heuristic Only (ML model not loaded)")}
    ELSE IF fault THEN {Raised("predict")}
    ELSE {Response(f, CombineVerdict(f), h_score, issues, "ML + Heuristic Ensemble") :
              f \in CombineFinal(CombineBranch(ml, h_score, issues))}

\* Lines 481-511: content is what analyze_page_content did.
UrlContent(h_score, h_verdict, issues, content, url, trained, fault, ml) ==
    IF content.outcome = "raise" \/ content.issues = <<>>
    THEN UrlEnsemble(h_score, h_verdict, issues, url, trained, fault, ml)
    ELSE UNION {UrlEnsemble(r, ApiVerdict(r), issues \o content.issues,
                            url, trained, fault, ml) :
                    r \in Recalculated(issues \o content.issues)}

\* Lines 474-574, h being what analyze_url_heuristic did for the url: the set
\* of outcomes of the endpoint.
analyze_url(h, content, url, trained, fault, ml) ==
    IF h.outcome = "raise" THEN {Raised("ValueError")}
    ELSE UNION {UrlContent(r, h.verdict, h.issues, content, url, trained, fault, ml) :
                    r \in Round4(h.score)}

\* Lines 577-604: the outcome of the e-mail endpoint, ml being the score of
\* email_classifier.predict.
analyze_email(trained, fault, ml) ==
    IF ~trained THEN Raised("HTTPException 503")
    ELSE IF fault THEN Raised("predict")
    ELSE Response(ml, PredictVerdict(ml), 0, <<>>, "Deep Neural Network")

\* ============================================================ state machine
\* One behaviour is one call of one function of the engine: the call's
\* arguments are fixed by the initial state, the action runs the function to
\* its return or to the exception that leaves it.
VARIABLES
    fn,                 \* the function called
    pc,                 \* "call", "line523", "return" or "raise"
    url,                \* analyze_url_heuristic / check_brand_impersonation argument
    domain,             \* the argument of the detectors and of the base extraction
    phone,              \* analyze_phone argument
    phone_classifier,   \* phone_analyzer.phone_classifier is loaded (lines 18-25)
    ml_score,           \* combine_scores argument; in analyze_phone, predict's score
    heuristic_score,    \* combine_scores argument
    heuristic_issues,   \* combine_scores argument
    ml_verdict,         \* combine_scores argument
    heuristic_verdict,  \* combine_scores argument
    all_issues,         \* analyze_url_heuristic local (lines 515-521)
    score,              \* local `score` before the rounding of the return
    final_score,        \* local `final_score` before it is rounded
    base,               \* features._brand_name_in_domain local (lines 105-110)
    result,             \* the value returned, or the exception raised
    page,               \* the document of the url, as the parser gives it
    fetch,              \* "provided" (html_content given), "ok" or "fail" (requests.get)
    is_trained,         \* is_trained of the classifier the endpoint uses
    predict_fault,      \* the classifier's predict raises
    OSINT_CACHE,        \* page_analyzer._OSINT_CACHE
    OSINT_LAST_FETCH,   \* page_analyzer._OSINT_LAST_FETCH
    clock,              \* time.time()
    resp,               \* get_openphish_list local: what requests.get gave
    last_good,          \* history: the list of the last fetch that succeeded
    req_pc,             \* per concurrent analysis: its line in get_openphish_list
    req_now,            \* per concurrent analysis: its local current_time
    req_resp,           \* per concurrent analysis: its local resp
    scanner_thread,     \* osint_scanner._scanner_thread: 0 is None, else the Thread
    stop_event,         \* osint_scanner._stop_event is set
    thread_pc,          \* per Thread object: its line in _scanner_loop
    last_call,          \* the last of start_osint_scanner / stop_osint_scanner to return
    calls,              \* how many of these calls have returned
    api_pc,             \* api_request: "idle", "line104" (the for statement) or "return"
    method,             \* api_request argument
    attempt,            \* api_request local: loop passes completed
    retry_delay,        \* api_request local
    api_resp,           \* api_request local resp, or the exception the client raised
    waits,              \* history: the arguments of asyncio.sleep, in order
    sent,               \* history: HTTP requests made by this call
    api_result,         \* what api_request returned
    answers,            \* per url of the message: what api_request returns for it
    mod_pc,             \* process_urls_in_background: "idle", "line670" or "return"
    mod_i,              \* the position in urls of the for loop
    deleted,            \* update.message.delete() succeeded
    replies,            \* history: the messages the bot sent, in order
    judged              \* history: the urls that reached line 689, in order

\* What the call was given.
args == <<fn, url, domain, phone, phone_classifier, ml_score, heuristic_score,
          heuristic_issues, ml_verdict, heuristic_verdict, page, fetch, is_trained,
          predict_fault>>

\* The blacklist cache of page_analyzer and the time.
globals == <<OSINT_CACHE, OSINT_LAST_FETCH, clock, resp, last_good>>

\* The locals of the analyses that run in the server's worker threads.
refresh_vars == <<req_pc, req_now, req_resp>>

\* The state of everything that runs next to the call.
\* The scanner of osint_scanner.py, its threads and its callers.
scanner_vars == <<scanner_thread, stop_event, thread_pc, last_call, calls>>

\* The locals of the bot's api_request.
api_vars == <<api_pc, method, attempt, retry_delay, api_resp, waits, sent, api_result>>

\* The links of a group message and what process_urls_in_background did.
moderation_vars == <<answers, mod_pc, mod_i, deleted, replies, judged>>

\* What runs next to the concurrent analyses.
beside_refresh == <<scanner_vars, api_vars, moderation_vars>>

workers == <<refresh_vars, beside_refresh>>

vars == <<args, globals, workers, pc, all_issues, score, final_score, base, result>>

\* ------------------------------------------------------------------ inputs
\* URLs analysed: the repository's test URLs, URLs of each detector's kind,
\* and malformed strings.
URLS ==
    {"", "//[", "HTTP://EXAMPLE.COM/LOGIN", "HTTPS://WWW.Kaspi.KZ:8080/Path", "[", "a]b",
     "foo.coinbase.com", "ftp://files.example.com/a;type=i",
     "http://127.0.0.1:8080/admin/login", "http://192.168.1.50/bank-login", "http://[",
     "http://[::1]/login", "http://a.b.c.d.e.com/x;y?redirect=1",
     "http://egov-kz.xyz/signin", "http://faceb00k.com/signin", "http://gooogle.com/login",
     "http://halykbank.account-verify.ml/login", "http://kaspi-secure-login.tk/verify",
     "http://kaspi.phishing.tk/kaspi/login",
     "http://microsoftonline-secure-login.account-verify.tk/webscr/cmd=login",
     "http://netfl1x.com", "http://paypal-update.ml/confirm", "http://vulkan-casino.com",
     "http://www.kaspi.kz@evil-redirect.tk/verify", "https://1xbet.kz/login",
     "https://a-b-c.example.org/data:text", "https://a.b.c.d.example.com",
     "https://appleid.apple.com", "https://bit.ly/abc",
     "https://evil.com/?url=http://x.com&next=1",
     "https://evil.com/a%20b%20c%20d%20e%20f%20g", "https://evil.com/file.pdf.EXE",
     "https://evil.com/file.tar.gz", "https://evil.com/paypal/a.pdf.exe",
     "https://evil.com/x.ab.com", "https://example.com/spin/win",
     "https://github.com/project", "https://google.com", "https://kaspi.kz",
     "https://kaspi.kz:0443/", "https://kaspi.kz:443/", "https://kaspi.kz:8443/",
     "https://login.netflix.com/", "https://microsoft.com", "https://my.gov.kz",
     "https://online.sberbank.ru", "https://poker.example.com/bonus",
     "https://safe-blog.com/about", "https://sberbank.ru",
     "https://secure.kaspi.kz.evil.tk/login", "https://shop.amazon.co.uk/deal?x=1#top",
     "https://t.me/casino_slots", "https://user:pw@kaspi.kz/",
     "https://www.google.com/search?q=paypal", "https://xn--kaspi-abc.kz/",
     "javascript:alert(1)", "kaspi.kz//[x", "kaspi.kz:8080/x", "x/[y"}

\* Severities of the issue lists given to the aggregation, in hundredths:
\* the lowest and the highest a detector emits, the critical threshold of
\* combine_scores, and one in between.
SEVERITY_POOL == {35, 50, 85, 100}

ISSUE_POOL == {Issue("issue", p) : p \in SEVERITY_POOL}

IssueLists == UNION {[1..n -> ISSUE_POOL] : n \in 0..MaxIssues}

\* Scores given to combine_scores, in 1e-4: the ends of [0,1], the branch
\* thresholds 0.5 and 0.6 and the verdict thresholds with their neighbours.
SCORE_GRID ==
    {0, 1, 2999, 3000, 3333, 5000, 5001, 6000, 6001, 6499, 6500, 9000, 9500, 10000}

\* Issue lists given to combine_scores: none, below and at the critical
\* severity, one without a severity key, and a mixed one.
COMBINE_ISSUES ==
    {<<>>,
     <<Issue("issue", 84)>>,
     <<Issue("issue", 85)>>,
     <<Issue("brand_impersonation", 90)>>,
     <<[type |-> "issue"]>>,
     <<Issue("issue", 50), Issue("issue", 90)>>}

\* The verdict labels.
VERDICTS == {"safe", "suspicious", "phishing"}

NoResult == <<>>

\* No document.
NoPage == EMPTY_PAGE

\* The module page_analyzer as imported (lines 44-45), some time after the
\* epoch, no request made; no document, no classifier.
NoPageAnalysis ==
    /\ page = NoPage /\ fetch = "fail" /\ is_trained = FALSE /\ predict_fault = FALSE
    /\ OSINT_CACHE = <<>> /\ OSINT_LAST_FETCH = 0 /\ clock = CACHE_SECONDS
    /\ resp = NO_REQUEST /\ last_good = <<>>

\* No verdict labels are passed.
NoVerdicts == ml_verdict = "" /\ heuristic_verdict = ""

\* The analyses that can run at the same time.
REQUESTS == 1..MaxRequests

\* No analysis is inside get_openphish_list.
NoRequests ==
    /\ req_pc = [t \in REQUESTS |-> "idle"]
    /\ req_now = [t \in REQUESTS |-> 0]
    /\ req_resp = [t \in REQUESTS |-> NO_REQUEST]

\* The Thread objects start_osint_scanner can create.
THREADS == 1..MaxCalls

\* osint_scanner as imported (lines 21-22): no thread, the event not set.
NoScanner ==
    /\ scanner_thread = 0 /\ stop_event = FALSE
    /\ thread_pc = [t \in THREADS |-> "unborn"]
    /\ last_call = "" /\ calls = 0

\* Python's None.
PyNone == "None"

\* No request has been made by the client.
NO_REPLY == [outcome |-> "none", status_code |-> 0, json |-> ""]

\* The bot is not inside api_request.
NoApiRequest ==
    /\ api_pc = "idle" /\ method = "" /\ attempt = 0 /\ retry_delay = 0
    /\ api_resp = NO_REPLY /\ waits = <<>> /\ sent = 0 /\ api_result = PyNone

\* No group message is being moderated.
NoModeration ==
    /\ answers = <<>> /\ mod_pc = "idle" /\ mod_i = 0 /\ deleted = FALSE
    /\ replies = <<>> /\ judged = <<>>

\* Nothing runs next to the call.
Idle == NoRequests /\ NoScanner /\ NoApiRequest /\ NoModeration

EnvInit == NoPageAnalysis /\ NoVerdicts /\ Idle

\* ---------------------------------------------- URL analysis and combination
InitUrl ==
    /\ fn = "analyze_url_heuristic" /\ pc = "call"
    /\ url \in URLS
    /\ domain = "" /\ phone = "" /\ phone_classifier = FALSE
    /\ ml_score = 0 /\ heuristic_score = 0 /\ heuristic_issues = <<>>
    /\ all_issues = <<>> /\ score = 0 /\ final_score = 0 /\ base = "" /\ result = NoResult
    /\ EnvInit

\* analyze_url_heuristic at line 523, the detectors having filled all_issues.
InitIssues ==
    /\ fn = "analyze_url_heuristic" /\ pc = "line523"
    /\ all_issues \in IssueLists
    /\ url = "" /\ domain = "" /\ phone = "" /\ phone_classifier = FALSE
    /\ ml_score = 0 /\ heuristic_score = 0 /\ heuristic_issues = <<>>
    /\ score = 0 /\ final_score = 0 /\ base = "" /\ result = NoResult
    /\ EnvInit

InitCombine ==
    /\ fn = "combine_scores" /\ pc = "call"
    /\ ml_score \in {Dec4(n) : n \in SCORE_GRID}
    /\ heuristic_score \in {Dec4(n) : n \in SCORE_GRID}
    /\ heuristic_issues \in COMBINE_ISSUES
    /\ url = "" /\ domain = "" /\ phone = "" /\ phone_classifier = FALSE
    /\ all_issues = <<>> /\ score = 0 /\ final_score = 0 /\ base = "" /\ result = NoResult
    /\ ml_verdict \in VERDICTS /\ heuristic_verdict \in VERDICTS
    /\ NoPageAnalysis /\ Idle

\* main.py line 522: combine_scores called with the issue list and the score
\* analyze_url_heuristic returned for it.
InitEnsemble ==
    /\ fn = "combine_scores" /\ pc = "call"
    /\ ml_score \in {Dec4(n) : n \in SCORE_GRID}
    /\ heuristic_issues \in UNION {[1..n -> ISSUE_POOL] : n \in 1..MaxEnsembleIssues}
    /\ heuristic_score \in Round4(HeuristicScore(heuristic_issues))
    /\ url = "" /\ domain = "" /\ phone = "" /\ phone_classifier = FALSE
    /\ all_issues = <<>> /\ score = 0 /\ final_score = 0 /\ base = "" /\ result = NoResult
    /\ ml_verdict = PredictVerdict(ml_score)
    /\ heuristic_verdict = HeuristicVerdict(HeuristicScore(heuristic_issues))
    /\ NoPageAnalysis /\ Idle

\* analyze_url and analyze_qr at main.py line 488 (line 648): the content
\* issues, not empty, have been appended to the url issues.
InitRecalculate ==
    /\ fn \in {"analyze_url", "analyze_qr"} /\ pc = "line488"
    /\ all_issues \in IssueLists \ {<<>>}
    /\ url = "" /\ domain = "" /\ phone = "" /\ phone_classifier = FALSE
    /\ ml_score = 0 /\ heuristic_score = 0 /\ heuristic_issues = <<>>
    /\ score = 0 /\ final_score = 0 /\ base = "" /\ result = NoResult
    /\ EnvInit

Init == InitUrl \/ InitIssues \/ InitCombine \/ InitEnsemble \/ InitRecalculate

\* Lines 488-570, from the call to the return or the exception.
AnalyzeUrlHeuristic ==
    /\ fn = "analyze_url_heuristic" /\ pc = "call"
    /\ \E r \in {analyze_url_heuristic(url)} :
           IF r.outcome = "raise"
           THEN /\ pc' = "raise"
                /\ result' = [error |-> "ValueError"]
                /\ UNCHANGED <<all_issues, score>>
           ELSE \E rounded \in Round4(r.score) :
                /\ pc' = "return"
                /\ all_issues' = r.issues
                /\ score' = r.score
                /\ result' = [score |-> rounded, verdict |-> r.verdict, issues |-> r.issues]
    /\ UNCHANGED <<args, workers, globals, final_score, base>>

\* Lines 523-570 on an issue list.
AggregateIssues ==
    /\ fn = "analyze_url_heuristic" /\ pc = "line523"
    /\ \E r \in {ScoredResult(all_issues, HeuristicScore(all_issues))} :
       \E rounded \in Round4(r.score) :
           /\ score' = r.score
           /\ result' = [score |-> rounded, verdict |-> r.verdict, issues |-> r.issues]
    /\ pc' = "return"
    /\ UNCHANGED <<args, workers, globals, all_issues, final_score, base>>

\* Lines 573-613.
CombineScores ==
    /\ fn = "combine_scores" /\ pc = "call"
    /\ \E branch \in {CombineBranch(ml_score, heuristic_score, heuristic_issues)} :
       \E final \in CombineFinal(branch) :
           /\ final_score' = branch
           /\ result' = [score |-> final, verdict |-> CombineVerdict(final)]
    /\ pc' = "return"
    /\ UNCHANGED <<args, workers, globals, all_issues, score, base>>

\* main.py, lines 488-505 (and 648-665): h_score and h_verdict recalculated.
RecalculateInline ==
    /\ fn \in {"analyze_url", "analyze_qr"} /\ pc = "line488"
    /\ \E h_score \in Recalculated(all_issues) :
           result' = [score |-> h_score, verdict |-> ApiVerdict(h_score),
                      issues |-> all_issues]
    /\ pc' = "line506"
    /\ UNCHANGED <<args, workers, globals, all_issues, score, final_score, base>>

Next == AnalyzeUrlHeuristic \/ AggregateIssues \/ CombineScores \/ RecalculateInline

Spec == Init /\ [][Next]_vars

\* ------------------------------------------------- detectors on single hosts
CANONICAL_DOMAINS ==
    UNION {{BRAND_DOMAINS[b].official_domains[k] :
                k \in 1..Len(BRAND_DOMAINS[b].official_domains)} :
           b \in 1..Len(BRAND_DOMAINS)}

\* Ways of writing the host d that differ in case, a leading www. and a port.
HostSpellings(d) == {d, "www." \o d, d \o ":8080", "WWW." \o Upper(d) \o ":443"}

\* The spellings of each canonical domain.
CanonicalSpellings == [d \in CANONICAL_DOMAINS |-> HostSpellings(d)]

SUBDOMAIN_LABELS == {"login", "m"}

\* The prefixes "l1.l2. ... ln." of n subdomain labels.
RECURSIVE SubdomainPrefixes(_)
SubdomainPrefixes(n) ==
    IF n = 0 THEN {""}
    ELSE {l \o "." \o p : l \in SUBDOMAIN_LABELS, p \in SubdomainPrefixes(n - 1)}

SubdomainHosts(d) ==
    UNION {{p \o d : p \in SubdomainPrefixes(n)} : n \in 1..MaxExtraLabels}

\* Misspellings of a label: one and two characters dropped, added or replaced,
\* and three added.
Misspellings(l) ==
    {Tail(l), SubSeq(l, 1, Len(l) - 1), l \o "x", "x" \o l \o "x", l \o "xyz",
     CharAt(l, 1) \o "0" \o From(l, 3), Tail(l) \o "s"}

TYPO_HOSTS ==
    {m \o ".com" : m \in UNION {Misspellings(Split(d, ".")[1]) : d \in CANONICAL_DOMAINS}}

\* Hosts that carry a brand name in the base label or in a subdomain label,
\* and one that carries none.
BRAND_HOSTS ==
    UNION {{BRAND_DOMAINS[b].brand \o "-login.tk", BRAND_DOMAINS[b].brand \o ".phishing.tk"} :
           b \in 1..Len(BRAND_DOMAINS)}
    \cup {"phishing.tk", "halykbank.account-verify.ml", "secure.kaspi.kz.evil.tk"}

\* Paths of the urls given to check_brand_impersonation: without and with a
\* brand name.
PATHS == {"", "/kaspi/login", "/verify/paypal"}

PLAIN_HOSTS == CANONICAL_DOMAINS \cup UNION {SubdomainHosts(d) : d \in CANONICAL_DOMAINS}

SPELLED_HOSTS == UNION {CanonicalSpellings[d] : d \in CANONICAL_DOMAINS}

InitHost ==
    /\ pc = "call"
    /\ \/ /\ fn = "check_brand_impersonation"
          /\ domain \in SPELLED_HOSTS \cup PLAIN_HOSTS \cup BRAND_HOSTS
          /\ \E path \in PATHS : url = "https://" \o domain \o path
       \/ /\ fn = "check_typosquatting"
          /\ domain \in SPELLED_HOSTS \cup TYPO_HOSTS
          /\ url = ""
       \/ /\ fn \in {"_extract_base_domain", "_brand_name_in_domain"}
          /\ domain \in PLAIN_HOSTS \cup BRAND_HOSTS
          /\ url = ""
    /\ phone = "" /\ phone_classifier = FALSE
    /\ ml_score = 0 /\ heuristic_score = 0 /\ heuristic_issues = <<>>
    /\ all_issues = <<>> /\ score = 0 /\ final_score = 0 /\ base = "" /\ result = NoResult
    /\ EnvInit

\* Lines 161-209.
CheckBrandImpersonation ==
    /\ fn = "check_brand_impersonation" /\ pc = "call"
    /\ \E r \in {check_brand_impersonation(url, domain)} :
           IF r.raised
           THEN pc' = "raise" /\ result' = [error |-> "ValueError"]
           ELSE pc' = "return" /\ result' = r.issues
    /\ UNCHANGED <<args, workers, globals, all_issues, score, final_score, base>>

\* Lines 212-255.
CheckTyposquatting ==
    /\ fn = "check_typosquatting" /\ pc = "call"
    /\ result' = check_typosquatting(domain)
    /\ pc' = "return"
    /\ UNCHANGED <<args, workers, globals, all_issues, score, final_score, base>>

\* Lines 148-158.
ExtractBaseDomain ==
    /\ fn = "_extract_base_domain" /\ pc = "call"
    /\ result' = extract_base_domain(domain)
    /\ pc' = "return"
    /\ UNCHANGED <<args, workers, globals, all_issues, score, final_score, base>>

\* features.py, lines 100-116.
BrandNameInDomain ==
    /\ fn = "_brand_name_in_domain" /\ pc = "call"
    /\ base' = brand_name_in_domain_base(domain)
    /\ result' = brand_name_in_domain(domain)
    /\ pc' = "return"
    /\ UNCHANGED <<args, workers, globals, all_issues, score, final_score>>

NextHost ==
    CheckBrandImpersonation \/ CheckTyposquatting \/ ExtractBaseDomain \/ BrandNameInDomain

SpecHost == InitHost /\ [][NextHost]_vars

\* ------------------------------------------------------------ phone analysis
PHONE_PREFIXES ==
    {"", "+", "+7", "7", "8", "+7800", "8800", "+7495", "8495", "+7499", "+234", "+91",
     "+44", "+371", "+372", "+380", "+996", "+998", "+1", "234"}

PHONE_BODIES ==
    {"", "xyz", "12", "7015551234", " 701 555 1234", " (701) 555-12-34", "1234567890123456"}

PHONES == {p \o b : p \in PHONE_PREFIXES, b \in PHONE_BODIES}

InitPhone ==
    /\ fn = "analyze_phone" /\ pc = "call"
    /\ phone \in PHONES
    /\ phone_classifier \in BOOLEAN
    /\ ml_score \in IF phone_classifier THEN {0, Dec4(5000), One} ELSE {0}
    /\ url = "" /\ domain = ""
    /\ heuristic_score = 0 /\ heuristic_issues = <<>>
    /\ all_issues = <<>> /\ score = 0 /\ final_score = 0 /\ base = "" /\ result = NoResult
    /\ EnvInit

\* phone_analyzer.py, lines 41-145.
AnalyzePhone ==
    /\ fn = "analyze_phone" /\ pc = "call"
    /\ \E r \in {analyze_phone(phone, phone_classifier, ml_score)} :
           IF r.outcome = "raise"
           THEN /\ pc' = "raise"
                /\ result' = [error |-> r.error]
                /\ score' = PhoneScore(phone)
                /\ final_score' = r.score
           ELSE /\ pc' = "return"
                /\ \E rounded \in Round4(r.score) :
                       result' = [score |-> rounded, verdict |-> r.verdict,
                                  details |-> r.details]
                /\ IF PhoneDigits(phone) = ""
                   THEN UNCHANGED <<score, final_score>>
                   ELSE score' = PhoneScore(phone) /\ final_score' = r.score
    /\ UNCHANGED <<args, workers, globals, all_issues, base>>

NextPhone == AnalyzePhone

SpecPhone == InitPhone /\ [][NextPhone]_vars

\* ------------------------------------------------- urls with a userinfo part
\* What stands before the @ for the canonical domain d: the domain, with
\* www., with a port, with a password.
UserinfoSpellings(d) == {d, "www." \o d, d \o ":443", d \o ":secret"}

\* The real hosts after the @: no canonical domain of any brand.
REAL_HOSTS == {"evil-redirect.tk", "example.org:8080"}

\* The urls scheme://userinfo@host/verify of each canonical domain.
UserinfoUrls ==
    [d \in CANONICAL_DOMAINS |->
        {"http://" \o u \o "@" \o h \o "/verify" : u \in UserinfoSpellings(d), h \in REAL_HOSTS}]

InitUserinfo ==
    /\ fn = "analyze_url_heuristic" /\ pc = "call"
    /\ url \in UNION {UserinfoUrls[d] : d \in CANONICAL_DOMAINS}
    /\ domain = "" /\ phone = "" /\ phone_classifier = FALSE
    /\ ml_score = 0 /\ heuristic_score = 0 /\ heuristic_issues = <<>>
    /\ all_issues = <<>> /\ score = 0 /\ final_score = 0 /\ base = "" /\ result = NoResult
    /\ EnvInit

NextUserinfo == AnalyzeUrlHeuristic

SpecUserinfo == InitUserinfo /\ [][NextUserinfo]_vars

\* ------------------------------------------------------- the blacklist cache
\* Most steps of CACHE_SECONDS / 2 the time advances.
MaxTicks == 3

\* What the feed server sends: feeds with entries, blank lines and spaces, an
\* empty feed, an error status, and no response (timeout, connection error).
RESPONSES ==
    {[outcome |-> "response", status_code |-> 200, text |-> t] :
        t \in {"http://fast.com/login.php\nhttps://evil.tk/a\n",
               " http://phish.example/x \n\nevil.tk\n",
               ""}}
    \cup {[outcome |-> "response", status_code |-> 503, text |-> "http://late.example/x"],
          [outcome |-> "exception", status_code |-> 0, text |-> ""]}

\* Urls checked against the blacklist: listed hosts and urls, hosts that are
\* part of a listed entry, a url without a host, unlisted ones.
OSINT_URLS ==
    {"http://evil.tk/", "https://evil.tk/a", "http://EVIL.TK/b", "http://t.co/x",
     "http://vil.tk", "http:///path", "http://example.org/", "http://phish.example/x",
     "http://[", "http://fast.com.example.org/"}

InitOsint ==
    /\ pc = "call"
    /\ \/ fn = "get_openphish_list" /\ url = ""
       \/ fn = "check_domain_osint" /\ url \in OSINT_URLS
    /\ domain = "" /\ phone = "" /\ phone_classifier = FALSE
    /\ ml_score = 0 /\ heuristic_score = 0 /\ heuristic_issues = <<>>
    /\ all_issues = <<>> /\ score = 0 /\ final_score = 0 /\ base = "" /\ result = NoResult
    /\ EnvInit

\* The globals and the history after a call of get_openphish_list that gave g
\* while the server would answer r.
CacheUpdate(g, r) ==
    /\ OSINT_CACHE' = g.cache
    /\ OSINT_LAST_FETCH' = g.last
    /\ resp' = IF g.requested THEN r ELSE NO_REQUEST
    /\ last_good' = IF g.requested /\ FetchSucceeded(r) THEN g.list ELSE last_good

\* page_analyzer.py, lines 47-67: one call, any number of times.
GetOpenphishList ==
    /\ fn = "get_openphish_list"
    /\ \E r \in RESPONSES :
       \E g \in {get_openphish_list(OSINT_CACHE, OSINT_LAST_FETCH, clock, r)} :
           /\ CacheUpdate(g, r)
           /\ result' = g.list
    /\ pc' = "return"
    /\ UNCHANGED <<args, workers, clock, all_issues, score, final_score, base>>

\* page_analyzer.py, lines 70-89: one call, any number of times.
CheckDomainOsint ==
    /\ fn = "check_domain_osint"
    /\ \E r \in RESPONSES :
       \E g \in {get_openphish_list(OSINT_CACHE, OSINT_LAST_FETCH, clock, r)} :
           /\ CacheUpdate(g, r)
           /\ result' = check_domain_osint(url, g.list)
    /\ pc' = "return"
    /\ UNCHANGED <<args, workers, clock, all_issues, score, final_score, base>>

\* Time passes between two calls.
Tick ==
    /\ clock < CACHE_SECONDS + MaxTicks * (CACHE_SECONDS \div 2)
    /\ clock' = clock + CACHE_SECONDS \div 2
    /\ UNCHANGED <<args, workers, OSINT_CACHE, OSINT_LAST_FETCH, resp, last_good,
                   pc, all_issues, score, final_score, base, result>>

NextOsint == GetOpenphishList \/ CheckDomainOsint \/ Tick

SpecOsint == InitOsint /\ [][NextOsint]_vars

\* ------------------------------------- concurrent calls of get_openphish_list
\* analyze_url is a plain def: the server runs each request in a worker thread
\* (main.py line 473), and each analysis calls get_openphish_list through
\* analyze_page_content and check_domain_osint.
InitRefresh ==
    /\ fn = "analyze_url" /\ pc = "call"
    /\ url = "" /\ domain = "" /\ phone = "" /\ phone_classifier = FALSE
    /\ ml_score = 0 /\ heuristic_score = 0 /\ heuristic_issues = <<>>
    /\ all_issues = <<>> /\ score = 0 /\ final_score = 0 /\ base = "" /\ result = NoResult
    /\ EnvInit

\* Lines 52-55: current_time is read and the cache is tested.
EnterGetOpenphishList(t) ==
    /\ req_pc[t] = "idle"
    /\ req_now' = [req_now EXCEPT ![t] = clock]
    /\ req_pc' = [req_pc EXCEPT ![t] =
                     IF OSINT_CACHE # <<>> /\ clock - OSINT_LAST_FETCH < CACHE_SECONDS
                     THEN "line55" ELSE "line58"]
    /\ UNCHANGED <<args, beside_refresh, globals, req_resp, pc, all_issues, score, final_score, base, result>>

\* Lines 58-59: requests.get returns or raises; the status is tested.
ReceiveFeed(t) ==
    /\ req_pc[t] = "line58"
    /\ \E r \in RESPONSES :
           /\ req_resp' = [req_resp EXCEPT ![t] = r]
           /\ req_pc' = [req_pc EXCEPT ![t] = IF FetchSucceeded(r) THEN "line60" ELSE "line67"]
    /\ UNCHANGED <<args, beside_refresh, globals, req_now, pc, all_issues, score, final_score, base, result>>

\* Lines 60-61: the two globals are assigned.
AssignCache(t) ==
    /\ req_pc[t] = "line60"
    /\ OSINT_CACHE' = FeedLines(req_resp[t].text)
    /\ OSINT_LAST_FETCH' = req_now[t]
    /\ last_good' = FeedLines(req_resp[t].text)
    /\ resp' = req_resp[t]
    /\ req_pc' = [req_pc EXCEPT ![t] = "line63"]
    /\ UNCHANGED <<args, beside_refresh, clock, req_now, req_resp, pc, all_issues, score, final_score,
                   base, result>>

\* Lines 55, 63 and 67: return _OSINT_CACHE.
ReturnCache(t) ==
    /\ req_pc[t] \in {"line55", "line63", "line67"}
    /\ result' = OSINT_CACHE
    /\ req_pc' = [req_pc EXCEPT ![t] = "idle"]
    /\ req_resp' = [req_resp EXCEPT ![t] = NO_REQUEST]
    /\ UNCHANGED <<args, beside_refresh, globals, req_now, pc, all_issues, score, final_score, base>>

NextRefresh ==
    \/ \E t \in REQUESTS : EnterGetOpenphishList(t)
    \/ \E t \in REQUESTS : ReceiveFeed(t)
    \/ \E t \in REQUESTS : AssignCache(t)
    \/ \E t \in REQUESTS : ReturnCache(t)
    \/ Tick

SpecRefresh == InitRefresh /\ [][NextRefresh]_vars

\* ------------------------------------------------ the background OSINT scanner
\* osint_scanner.py: start_osint_scanner and stop_osint_scanner are called by
\* the server, one call at a time; each Thread runs _scanner_loop.
InitScanner ==
    /\ fn = "start_osint_scanner" /\ pc = "call"
    /\ url = "" /\ domain = "" /\ phone = "" /\ phone_classifier = FALSE
    /\ ml_score = 0 /\ heuristic_score = 0 /\ heuristic_issues = <<>>
    /\ all_issues = <<>> /\ score = 0 /\ final_score = 0 /\ base = "" /\ result = NoResult
    /\ EnvInit

\* Thread.is_alive(): started and _scanner_loop has not returned.
IsAlive(t) == t # 0 /\ thread_pc[t] \notin {"unborn", "exited"}

\* The Thread object line 133 constructs: one that did not exist before.
NewThread == CHOOSE t \in THREADS : thread_pc[t] = "unborn" /\
                 \A u \in THREADS : thread_pc[u] = "unborn" => t <= u

\* Lines 128-134.
StartOsintScanner ==
    /\ calls < MaxCalls
    /\ IF scanner_thread = 0 \/ ~IsAlive(scanner_thread)
       THEN /\ stop_event' = FALSE
            /\ scanner_thread' = NewThread
            /\ thread_pc' = [thread_pc EXCEPT ![NewThread] = "line111"]
       ELSE UNCHANGED <<stop_event, scanner_thread, thread_pc>>
    /\ last_call' = "start"
    /\ calls' = calls + 1
    /\ UNCHANGED <<args, globals, refresh_vars, api_vars, moderation_vars, pc, all_issues, score, final_score,
                   base, result>>

\* Lines 136-139.
StopOsintScanner ==
    /\ calls < MaxCalls
    /\ stop_event' = (stop_event \/ (scanner_thread # 0 /\ IsAlive(scanner_thread)))
    /\ last_call' = "stop"
    /\ calls' = calls + 1
    /\ UNCHANGED <<args, globals, refresh_vars, api_vars, moderation_vars, scanner_thread, thread_pc, pc, all_issues,
                   score, final_score, base, result>>

\* Line 111: _stop_event.wait(30) returns, after 30 s or when the event is set.
WaitAfterStartup(t) ==
    /\ thread_pc[t] = "line111"
    /\ thread_pc' = [thread_pc EXCEPT ![t] = "line113"]
    /\ UNCHANGED <<args, globals, refresh_vars, api_vars, moderation_vars, scanner_thread, stop_event, last_call,
                   calls, pc, all_issues, score, final_score, base, result>>

\* Line 113: the loop condition; line 125 when the event is set.
TestStopEvent(t) ==
    /\ thread_pc[t] = "line113"
    /\ thread_pc' = [thread_pc EXCEPT ![t] = IF stop_event THEN "exited" ELSE "line115"]
    /\ UNCHANGED <<args, globals, refresh_vars, api_vars, moderation_vars, scanner_thread, stop_event, last_call,
                   calls, pc, all_issues, score, final_score, base, result>>

\* Lines 114-120: one scan cycle; what it raises is caught.
ScanCycle(t) ==
    /\ thread_pc[t] = "line115"
    /\ thread_pc' = [thread_pc EXCEPT ![t] = "line123"]
    /\ UNCHANGED <<args, globals, refresh_vars, api_vars, moderation_vars, scanner_thread, stop_event, last_call,
                   calls, pc, all_issues, score, final_score, base, result>>

\* Line 123: _stop_event.wait(SCAN_INTERVAL_SECONDS) returns.
WaitInterval(t) ==
    /\ thread_pc[t] = "line123"
    /\ thread_pc' = [thread_pc EXCEPT ![t] = "line113"]
    /\ UNCHANGED <<args, globals, refresh_vars, api_vars, moderation_vars, scanner_thread, stop_event, last_call,
                   calls, pc, all_issues, score, final_score, base, result>>

NextScanner ==
    \/ StartOsintScanner
    \/ StopOsintScanner
    \/ \E t \in THREADS : WaitAfterStartup(t)
    \/ \E t \in THREADS : TestStopEvent(t)
    \/ \E t \in THREADS : ScanCycle(t)
    \/ \E t \in THREADS : WaitInterval(t)

SpecScanner == InitScanner /\ [][NextScanner]_vars

\* --------------------------------------------- the bot's request to the backend
\* bot.py lines 96-134: api_request. What the backend can answer to one HTTP
\* request: a response with a status, whose json() gives a value or raises;
\* or the client raises.
API_BODIES == {"{\"verdict\": \"safe\"}", "{}", "JSONDecodeError"}

API_STATUSES == {200, 201, 400, 404, 429, 500, 502, 503, 504}

API_REPLIES ==
    {[outcome |-> "response", status_code |-> s, json |-> b] :
        s \in API_STATUSES, b \in API_BODIES}
    \cup {[outcome |-> o, status_code |-> 0, json |-> ""] :
             o \in {"TimeoutException", "ConnectError", "ReadError"}}

\* Line 99.
max_retries == 3

\* Line 118: the statuses after which the request is repeated.
RETRY_STATUSES == {429, 500, 502, 503, 504}

\* A backoff that does not grow.
NextDelaySame(d) == d

\* Line 121: retry_delay *= 2.
NextDelay(d) == d * 2

InitApiRequest ==
    /\ fn = "api_request" /\ pc = "call"
    /\ url = "" /\ domain = "" /\ phone = "" /\ phone_classifier = FALSE
    /\ ml_score = 0 /\ heuristic_score = 0 /\ heuristic_issues = <<>>
    /\ all_issues = <<>> /\ score = 0 /\ final_score = 0 /\ base = "" /\ result = NoResult
    /\ NoPageAnalysis /\ NoVerdicts /\ NoRequests /\ NoScanner /\ NoModeration
    /\ method \in {"GET", "POST", "PUT"}
    /\ api_pc = "line104" /\ attempt = 0 /\ retry_delay = 3
    /\ api_resp = NO_REPLY /\ waits = <<>> /\ sent = 0 /\ api_result = PyNone

\* Lines 105-132: one pass of the loop body, with the sleep that ends it.
Attempt ==
    /\ api_pc = "line104" /\ attempt < max_retries
    /\ IF method \notin {"GET", "POST"}
       THEN /\ api_pc' = "return" /\ api_result' = PyNone
            /\ UNCHANGED <<attempt, retry_delay, api_resp, waits, sent>>
       ELSE \E r \in API_REPLIES :
              /\ api_resp' = r
              /\ sent' = sent + 1
              /\ CASE r.outcome = "response" /\ r.status_code = 200 /\ r.json # "JSONDecodeError" ->
                        /\ api_pc' = "return" /\ api_result' = r.json
                        /\ UNCHANGED <<attempt, retry_delay, waits>>
                   [] r.outcome = "response" /\ r.status_code \in RETRY_STATUSES ->
                        /\ waits' = Append(waits, retry_delay)
                        /\ retry_delay' = NextDelay(retry_delay)
                        /\ attempt' = attempt + 1
                        /\ UNCHANGED <<api_pc, api_result>>
                   [] r.outcome \in {"TimeoutException", "ConnectError"} ->
                        /\ waits' = Append(waits, 2)
                        /\ attempt' = attempt + 1
                        /\ UNCHANGED <<api_pc, api_result, retry_delay>>
                   [] OTHER ->
                        /\ api_pc' = "return" /\ api_result' = PyNone
                        /\ UNCHANGED <<attempt, retry_delay, waits>>
    /\ UNCHANGED <<args, globals, refresh_vars, scanner_vars, moderation_vars, method, pc, all_issues,
                   score, final_score, base, result>>

\* Line 134: the loop has run max_retries times.
Exhausted ==
    /\ api_pc = "line104" /\ attempt >= max_retries
    /\ api_pc' = "return" /\ api_result' = PyNone
    /\ UNCHANGED <<args, globals, refresh_vars, scanner_vars, moderation_vars, method, attempt, retry_delay,
                   api_resp, waits, sent, pc, all_issues, score, final_score, base, result>>

NextApiRequest == Attempt \/ Exhausted

SpecApiRequest == InitApiRequest /\ [][NextApiRequest]_vars

\* Each await of the coroutine returns: the client has a timeout of 60 s
\* (line 91) and asyncio.sleep ends.
FairApiRequest == SpecApiRequest /\ WF_vars(Attempt) /\ WF_vars(Exhausted)

\* ------------------------------------------------- group link moderation
\* main.py lines 457-468.
get_risk_level(s) ==
    IF s < Sev(20) THEN "very_low"
    ELSE IF s < Sev(40) THEN "low"
    ELSE IF s < Sev(60) THEN "medium"
    ELSE IF s < Sev(80) THEN "high"
    ELSE "critical"

\* Scores of the backend's answers, in hundredths.
ANSWER_SCORES == {10, 30, 45, 60, 70, 90}

\* api_request gave None or an empty body: `not result` (line 674).
NoAnswer == [truthy |-> FALSE, verdict |-> "", risk_level |-> "", score |-> 0]

\* What api_request returns for POST /api/analyze-url: the fields of the
\* AnalysisResponse the bot reads (main.py lines 565-568), or nothing.
ANSWERS ==
    {[truthy |-> TRUE, verdict |-> ApiVerdict(Sev(p)),
      risk_level |-> get_risk_level(Sev(p)), score |-> Sev(p)] : p \in ANSWER_SCORES}
    \cup {NoAnswer}

\* bot.py line 689.
IsMalicious(r) ==
    \/ r.verdict = "phishing"
    \/ r.risk_level \in {"critical", "high"}
    \/ r.score > Sev(75)

InitModeration ==
    /\ fn = "process_urls_in_background" /\ pc = "call"
    /\ url = "" /\ domain = "" /\ phone = "" /\ phone_classifier = FALSE
    /\ ml_score = 0 /\ heuristic_score = 0 /\ heuristic_issues = <<>>
    /\ all_issues = <<>> /\ score = 0 /\ final_score = 0 /\ base = "" /\ result = NoResult
    /\ NoPageAnalysis /\ NoVerdicts /\ NoRequests /\ NoScanner /\ NoApiRequest
    /\ answers \in UNION {[1..n -> ANSWERS] : n \in 1..MaxUrls}
    /\ mod_pc = "line670" /\ mod_i = 1 /\ deleted = FALSE /\ replies = <<>> /\ judged = <<>>

\* Lines 670-748: one pass of the loop over urls. A call of the Telegram API
\* may raise; lines 728 and 744 catch it.
ProcessUrl ==
    /\ mod_pc = "line670" /\ mod_i <= Len(answers)
    /\ LET r == answers[mod_i] IN
       IF ~r.truthy
       THEN /\ mod_i' = mod_i + 1
            /\ UNCHANGED <<mod_pc, deleted, replies, judged>>
       ELSE /\ judged' = Append(judged, mod_i)
            /\ IF IsMalicious(r)
               THEN /\ \E d \in BOOLEAN, w \in BOOLEAN :
                          /\ deleted' = d
                          /\ replies' = IF d /\ w
                                        THEN Append(replies, [text |-> "warning", url |-> mod_i])
                                        ELSE replies
                    /\ mod_pc' = "return"
                    /\ UNCHANGED mod_i
               ELSE /\ \E ok \in BOOLEAN :
                          replies' = IF ok
                                     THEN Append(replies, [text |-> "safe", url |-> mod_i])
                                     ELSE replies
                    /\ mod_i' = mod_i + 1
                    /\ UNCHANGED <<mod_pc, deleted>>
    /\ UNCHANGED <<args, globals, refresh_vars, scanner_vars, api_vars, answers, pc,
                   all_issues, score, final_score, base, result>>

\* The loop has gone through urls.
EndOfUrls ==
    /\ mod_pc = "line670" /\ mod_i > Len(answers)
    /\ mod_pc' = "return"
    /\ UNCHANGED <<args, globals, refresh_vars, scanner_vars, api_vars, answers, mod_i,
                   deleted, replies, judged, pc, all_issues, score, final_score, base,
                   result>>

NextModeration == ProcessUrl \/ EndOfUrls

SpecModeration == InitModeration /\ [][NextModeration]_vars

\* ------------------------------------------------------- the forms of a page
\* Pages: a bare domain, its www host, a host with a port.
PAGE_URLS == {"https://bank.kz/login", "https://www.bank.kz/", "http://shop.example.com:8080/cart"}

\* Form actions: relative, none, the page's own site and a subdomain of it,
\* other sites, and hosts that contain or are contained in the page's host.
FORM_TARGETS ==
    {"/login", "", "https://bank.kz/auth", "https://pay.bank.kz/x",
     "https://bank.kz.evil.com/steal", "https://ank.kz/x", "https://evil.com/collect",
     "https://example.com/pay"}

InitPage ==
    /\ fn = "analyze_page_content" /\ pc = "call"
    /\ url \in PAGE_URLS
    /\ \E forms \in UNION {[1..n -> FORM_TARGETS] : n \in 0..MaxForms} :
           page = [EMPTY_PAGE EXCEPT !.forms = forms]
    /\ fetch \in {"provided", "ok"}
    /\ is_trained = FALSE /\ predict_fault = FALSE
    /\ OSINT_CACHE = <<>> /\ OSINT_LAST_FETCH = 0 /\ clock = CACHE_SECONDS
    /\ resp = NO_REQUEST /\ last_good = <<>>
    /\ domain = "" /\ phone = "" /\ phone_classifier = FALSE
    /\ ml_score = 0 /\ heuristic_score = 0 /\ heuristic_issues = <<>>
    /\ all_issues = <<>> /\ score = 0 /\ final_score = 0 /\ base = "" /\ result = NoResult
    /\ NoVerdicts /\ Idle

\* page_analyzer.py, lines 92-326, with the blacklist lookup of line 103.
AnalyzePageContent ==
    /\ fn = "analyze_page_content" /\ pc = "call"
    /\ \E r \in RESPONSES :
       \E g \in {get_openphish_list(OSINT_CACHE, OSINT_LAST_FETCH, clock, r)} :
       \E content \in {analyze_page_content(url, page, fetch, g.list)} :
           /\ CacheUpdate(g, r)
           /\ pc' = content.outcome
           /\ result' = content.issues
    /\ UNCHANGED <<args, workers, clock, all_issues, score, final_score, base>>

NextPage == AnalyzePageContent

SpecPage == InitPage /\ [][NextPage]_vars

\* ------------------------------------------------------------- the endpoints
\* Urls sent to the endpoints: an official domain, a brand imitation, an
\* unknown site, a blacklisted host, and urls urlparse rejects.
API_URLS ==
    {"https://google.com", "http://kaspi-secure-login.tk/verify",
     "https://safe-blog.com/about", "http://evil.tk/", "[ab", "//["}

\* Documents: an empty one, a casino page with an external password form, the
\* same page with a form action urlparse rejects, a page with a hidden block
\* and an iframe whose src urlparse rejects, and a page that only redirects.
PAGES ==
    {EMPTY_PAGE,
     [EMPTY_PAGE EXCEPT !.casino = 2, !.forms = <<"https://collect.example/post">>,
                        !.password_inputs = TRUE],
     [EMPTY_PAGE EXCEPT !.casino = 2, !.forms = <<"http://[">>,
                        !.password_inputs = TRUE],
     [EMPTY_PAGE EXCEPT !.hidden = TRUE, !.phishing = 1,
                        !.iframes = <<[src |-> "http://[", large |-> TRUE]>>],
     [EMPTY_PAGE EXCEPT !.meta_refresh = TRUE, !.js_redirect = TRUE,
                        !.total_links = 10, !.dead_links = 5,
                        !.iframes = <<[src |-> "https://ads.example/f", large |-> TRUE]>>]}

\* Scores of the learned models, at and next to the thresholds.
ML_SCORES == {Dec4(500), Dec4(2999), Dec4(6500), Dec4(6600), Dec4(6999), Dec4(7000), Dec4(9900)}

API_PHONES == {"xyz", "+7 701 555 1234", "+234 809 333 4444", "12"}

\* The learned model: not loaded, loaded with a predict that raises, loaded
\* with a score.
InitClassifier ==
    \/ is_trained = FALSE /\ predict_fault = FALSE /\ ml_score = 0
    \/ is_trained = TRUE /\ predict_fault = TRUE /\ ml_score = 0
    \/ is_trained = TRUE /\ predict_fault = FALSE /\ ml_score \in ML_SCORES

InitApi ==
    /\ pc = "call"
    /\ \/ /\ fn = "analyze_url" /\ url \in API_URLS /\ page \in PAGES
          /\ fetch \in {"provided", "ok", "fail"} /\ phone = "" /\ InitClassifier
       \/ /\ fn = "analyze_qr" /\ url \in API_URLS /\ page \in PAGES
          /\ fetch \in {"ok", "fail"} /\ phone = "" /\ InitClassifier
       \/ /\ fn = "analyze_email" /\ url = "" /\ page = NoPage /\ fetch = "fail"
          /\ phone = "" /\ InitClassifier
       \/ /\ fn = "analyze_phone_endpoint" /\ url = "" /\ page = NoPage /\ fetch = "fail"
          /\ phone \in API_PHONES
          /\ is_trained = FALSE /\ predict_fault = FALSE /\ ml_score = 0
    /\ domain = "" /\ phone_classifier = FALSE
    /\ heuristic_score = 0 /\ heuristic_issues = <<>>
    /\ all_issues = <<>> /\ score = 0 /\ final_score = 0 /\ base = "" /\ result = NoResult
    /\ OSINT_CACHE = <<>> /\ OSINT_LAST_FETCH = 0 /\ clock = CACHE_SECONDS
    /\ resp = NO_REQUEST /\ last_good = <<>>
    /\ NoVerdicts /\ Idle

\* The url analysis of an endpoint for the answer r of the feed server:
\* analyze_url_heuristic, analyze_page_content with its blacklist lookup,
\* the learned model. wrapped: the handler of analyze_qr, which turns
\* exceptions into status 500 (lines 728-730) and names the method its way
\* (line 695).
UrlAnalysis(h, r, wrapped) ==
    IF h.outcome = "raise"
    THEN /\ pc' = "raise"
         /\ result' = Raised(IF wrapped THEN "HTTPException 500" ELSE "ValueError")
         /\ UNCHANGED <<globals, all_issues, score, final_score>>
    ELSE \E g \in {get_openphish_list(OSINT_CACHE, OSINT_LAST_FETCH, clock, r)} :
         \E content \in {analyze_page_content(url, page, fetch, g.list)} :
         \E out \in analyze_url(h, content, url, is_trained, predict_fault, ml_score) :
             /\ CacheUpdate(g, r)
             /\ clock' = clock
             /\ score' = h.score
             /\ all_issues' = out.issues
             /\ final_score' = out.score
             /\ pc' = out.outcome
             /\ result' = IF ~wrapped THEN out
                          ELSE IF out.outcome = "raise" THEN Raised("HTTPException 500")
                          ELSE IF ~is_trained THEN [out EXCEPT !.method = "Heuristic Only"]
                          ELSE out

\* main.py, lines 472-574.
AnalyzeUrl ==
    /\ fn = "analyze_url" /\ pc = "call"
    /\ \E h \in {analyze_url_heuristic(url)} : \E r \in RESPONSES : UrlAnalysis(h, r, FALSE)
    /\ UNCHANGED <<args, workers, base>>

\* main.py, lines 607-730, for an image that decodes to url.
AnalyzeQr ==
    /\ fn = "analyze_qr" /\ pc = "call"
    /\ \E h \in {analyze_url_heuristic(url)} : \E r \in RESPONSES : UrlAnalysis(h, r, TRUE)
    /\ UNCHANGED <<args, workers, base>>

\* main.py, lines 577-604.
AnalyzeEmail ==
    /\ fn = "analyze_email" /\ pc = "call"
    /\ \E out \in {analyze_email(is_trained, predict_fault, ml_score)} :
           /\ pc' = out.outcome
           /\ result' = out
           /\ final_score' = out.score
    /\ UNCHANGED <<args, workers, globals, all_issues, score, base>>

\* main.py, lines 733-754: the module-level phone_classifier is an object.
AnalyzePhoneEndpoint ==
    /\ fn = "analyze_phone_endpoint" /\ pc = "call"
    /\ \E r \in {analyze_phone(phone, TRUE, ml_score)} :
           IF r.outcome = "raise"
           THEN /\ pc' = "raise"
                /\ result' = Raised(r.error)
                /\ final_score' = final_score
           ELSE /\ pc' = "return"
                /\ \E rounded \in Round4(r.score) :
                       /\ result' = Response(rounded, r.verdict, 0, <<>>, "phone")
                       /\ final_score' = rounded
    /\ UNCHANGED <<args, workers, globals, all_issues, score, base>>

NextApi == AnalyzeUrl \/ AnalyzeQr \/ AnalyzeEmail \/ AnalyzePhoneEndpoint

SpecApi == InitApi /\ [][NextApi]_vars

\* ================================================================ properties
\* The issues of a detector's result that name the brand.
IssuesFor(issues, types, brand) ==
    {i \in 1..Len(issues) : /\ issues[i].type \in types
                            /\ "brand" \in DOMAIN issues[i]
                            /\ issues[i].brand = brand}

\* x is y rounded to four decimals.
IsRounded4(x, y) == x % 60 = 0 /\ x - y <= 30 /\ y - x <= 30

\* C1: the score analyze_url_heuristic and combine_scores return lies in
\* [0,1], and the verdict returned is the threshold function of that returned
\* score: safe below 0.30, suspicious from 0.30 to below 0.65, phishing from
\* 0.65 on.
C1_ScoreInRangeVerdictByThreshold ==
    (pc = "return" /\ fn \in {"analyze_url_heuristic", "combine_scores"}) =>
        /\ result.score >= 0
        /\ result.score <= One
        /\ result.verdict = IF result.score * 100 < 30 * One THEN "safe"
                            ELSE IF result.score * 100 < 65 * One THEN "suspicious"
                            ELSE "phishing"

\* An analysis has returned a score that the rounding changed, next to a
\* threshold side that decides the verdict.
C1_Witness ==
    /\ pc = "return" /\ fn = "analyze_url_heuristic"
    /\ result.score # score
    /\ result.verdict = "suspicious"

\* C2: combine_scores computes the four-branch policy in its order (critical
\* issue: 0.7 heuristic + 0.3 learned; both above 0.6: 0.9 max + 0.1 min;
\* either above 0.5: 0.6 max + 0.4 min; else the mean), returns it rounded to
\* four decimals within [0,1], and gives 0.935 and phishing for learned 0.9,
\* heuristic 0.95 and one issue of severity 0.9.
C2_FourBranchPolicy ==
    (pc = "return" /\ fn = "combine_scores") =>
        LET h == heuristic_score
            l == ml_score
            hi == IF h > l THEN h ELSE l
            lo == IF h > l THEN l ELSE h
            critical == \E i \in 1..Len(heuristic_issues) :
                            /\ "severity" \in DOMAIN heuristic_issues[i]
                            /\ heuristic_issues[i].severity * 100 >= 85 * One
        IN  /\ 10 * final_score =
                   IF critical THEN 7 * h + 3 * l
                   ELSE IF h * 10 > 6 * One /\ l * 10 > 6 * One THEN 9 * hi + lo
                   ELSE IF h * 10 > 5 * One \/ l * 10 > 5 * One THEN 6 * hi + 4 * lo
                   ELSE 5 * h + 5 * l
            /\ IsRounded4(result.score, final_score)
            /\ result.score >= 0 /\ result.score <= One
            /\ (/\ l * 10 = 9 * One /\ h * 100 = 95 * One
                /\ Len(heuristic_issues) = 1 /\ critical)
               => result = [score |-> (935 * One) \div 1000, verdict |-> "phishing"]

\* The scenario of C2 has returned.
C2_Witness ==
    /\ pc = "return" /\ fn = "combine_scores"
    /\ ml_score = Dec4(9000) /\ heuristic_score = Dec4(9500)
    /\ heuristic_issues = <<Issue("brand_impersonation", 90)>>
    /\ result.score = Dec4(9350)

\* C3: the score of an aggregated issue list is 0.05 when the list is empty,
\* else over the (at most five) largest severities max*0.6 + mean*0.25 + bonus
\* when more than one is kept and max*0.85 + bonus when one is kept, with bonus
\* = min(0.15, 0.03 * number of all issues), clamped to [0,1]; the score
\* returned is that value rounded to four decimals.
C3_HeuristicScoreFormula ==
    (pc = "return" /\ fn = "analyze_url_heuristic" /\ result.issues # <<UNPARSEABLE>>) =>
        LET n == Len(result.issues)
            k == IF n < 5 THEN n ELSE 5
            sev(i) == result.issues[i].severity
            Sum(S) == LET RECURSIVE Add(_)
                          Add(T) == IF T = {} THEN 0
                                    ELSE LET x == CHOOSE y \in T : TRUE
                                         IN  sev(x) + Add(T \ {x})
                      IN  Add(S)
            kept == CHOOSE S \in SUBSET (1..n) :
                        /\ Cardinality(S) = k
                        /\ \A i \in S, j \in (1..n) \ S : sev(i) >= sev(j)
            max_sev == CHOOSE m \in {sev(i) : i \in 1..n} : \A i \in 1..n : m >= sev(i)
            bonus100 == IF 3 * n < 15 THEN 3 * n * One ELSE 15 * One
            value100k == IF k > 1 THEN 60 * k * max_sev + 25 * Sum(kept) + k * bonus100
                         ELSE 85 * max_sev + bonus100
        IN  /\ IF n = 0 THEN 100 * score = 5 * One
               ELSE 100 * k * score =
                        IF value100k > 100 * k * One THEN 100 * k * One ELSE value100k
            /\ IsRounded4(result.score, score)

\* More than five issues have been aggregated, the sixth more severe than the
\* first, more than one distinct severity kept.
C3_Witness ==
    /\ pc = "return" /\ fn = "analyze_url_heuristic"
    /\ Len(result.issues) > 5
    /\ result.issues[6].severity > result.issues[1].severity
    /\ result.issues[2].severity < result.issues[1].severity

\* C4: for every phone string with at least one digit, analyze_phone returns,
\* model loaded or not, a result whose details carry the list of issues.
C4_PhoneAnalysisReturns ==
    (/\ fn = "analyze_phone" /\ pc # "call"
     /\ \E i \in 1..Len(phone) : CharAt(phone, i) \in {"0", "1", "2", "3", "4", "5", "6", "7", "8", "9"})
    => (pc = "return" /\ "issues" \in DOMAIN result.details)

\* C5: analyze_url_heuristic returns for every input string, and what it
\* returns for a url that cannot be parsed is score 1.0, verdict phishing and
\* the single issue unparseable of severity 1.0.
C5_AnalysisNeverRaises ==
    (fn = "analyze_url_heuristic" /\ pc \notin {"call", "line523"}) =>
        /\ pc = "return"
        /\ (\E i \in 1..Len(result.issues) : result.issues[i].type = "unparseable")
           => result = [score |-> One, verdict |-> "phishing", issues |-> <<UNPARSEABLE>>]

\* C6: for a host that is a spelling (case, leading www., port) of a canonical
\* domain of brand B, check_brand_impersonation and check_typosquatting
\* return no brand_impersonation, brand_in_subdomain, brand_in_path or
\* typosquatting issue that names B.
C6_CanonicalHostNotFlagged ==
    (pc = "return" /\ fn \in {"check_brand_impersonation", "check_typosquatting"}) =>
        \A b \in 1..Len(BRAND_DOMAINS) :
            (\E k \in 1..Len(BRAND_DOMAINS[b].official_domains) :
                 domain \in CanonicalSpellings[BRAND_DOMAINS[b].official_domains[k]])
            => IssuesFor(result,
                         {"brand_impersonation", "brand_in_subdomain", "brand_in_path",
                          "typosquatting"},
                         BRAND_DOMAINS[b].brand) = {}

\* check_brand_impersonation has returned for a canonical domain written in
\* capitals with www. and a port, the brand's name in the path of the url.
C6_Witness ==
    /\ pc = "return" /\ fn = "check_brand_impersonation"
    /\ domain = "WWW.KASPI.KZ:443"
    /\ url = "https://WWW.KASPI.KZ:443/kaspi/login"
    /\ IssuesFor(result, {"brand_in_path"}, "paypal") = {}
    /\ IssuesFor(result, {"brand_in_path"}, "kaspi") = {}

\* C7: the base _extract_base_domain returns, and the base
\* features._brand_name_in_domain compares, is the host's last two labels, or
\* its last three exactly when the second-to-last label is one of co, com,
\* org, net, gov, edu.
C7_RegistrableBase ==
    (pc = "return" /\ fn \in {"_extract_base_domain", "_brand_name_in_domain"}) =>
        LET labels == Split(domain, ".")
            n == Len(labels)
            registrable ==
                IF n >= 3 /\ labels[n - 1] \in {"co", "com", "org", "net", "gov", "edu"}
                THEN Join(LastN(labels, 3), ".")
                ELSE IF n >= 2 THEN Join(LastN(labels, 2), ".")
                ELSE domain
        IN  IF fn = "_extract_base_domain" THEN result = registrable ELSE base = registrable

\* C8: for a brand B, a canonical domain D of B and subdomain labels s,
\* check_brand_impersonation returns no brand_impersonation issue naming B
\* for the host s.D.
C8_SubdomainOfCanonicalNotFlagged ==
    (pc = "return" /\ fn = "check_brand_impersonation") =>
        \A b \in 1..Len(BRAND_DOMAINS) :
            (\E k \in 1..Len(BRAND_DOMAINS[b].official_domains) :
                 EndsWith(domain, "." \o BRAND_DOMAINS[b].official_domains[k]))
            => IssuesFor(result, {"brand_impersonation"}, BRAND_DOMAINS[b].brand) = {}

\* a without its i-th character.
DropChar(a, i) == SubSeq(a, 1, i - 1) \o From(a, i + 1)

\* One insertion, deletion or substitution of a character turns a into b.
OneEdit(a, b) ==
    \/ /\ Len(a) = Len(b)
       /\ Cardinality({i \in 1..Len(a) : CharAt(a, i) # CharAt(b, i)}) = 1
    \/ Len(a) = Len(b) + 1 /\ \E i \in 1..Len(a) : DropChar(a, i) = b
    \/ Len(b) = Len(a) + 1 /\ \E i \in 1..Len(b) : DropChar(b, i) = a

\* Two edits turn a into b: through a with a character dropped, through b
\* with a character dropped, or through a with one character taken from b.
TwoEdits(a, b) ==
    \E c \in {DropChar(a, i) : i \in 1..Len(a)}
             \cup {DropChar(b, i) : i \in 1..Len(b)}
             \cup {SubSeq(a, 1, i - 1) \o CharAt(b, i) \o From(a, i + 1) :
                       i \in 1..(IF Len(a) = Len(b) THEN Len(a) ELSE 0)} :
        (c = a \/ OneEdit(a, c)) /\ (c = b \/ OneEdit(c, b))

\* The Levenshtein distance of a and b, 3 standing for 3 or more.
EditDistance(a, b) ==
    IF a = b THEN 0 ELSE IF OneEdit(a, b) THEN 1 ELSE IF TwoEdits(a, b) THEN 2 ELSE 3

C10_BrandIssueKindByPlace ==
    (pc = "return" /\ fn = "check_brand_impersonation") =>
        \A b \in 1..Len(BRAND_DOMAINS) :
            LET brand == BRAND_DOMAINS[b].brand
                host == normalize_domain(domain)
                base_domain == extract_base_domain(host)
                before == SubSeq(host, 1, Len(host) - Len(base_domain))
                path == Lower(From(url, Len("https://" \o domain) + 1))
                in_base == Contains(base_domain, brand)
                in_sub == Contains(before, brand)
                in_path == Contains(path, brand)
                Has(type, sev) ==
                    \E i \in IssuesFor(result, {type}, brand) : result[i].severity = Sev(sev)
                None(type) == IssuesFor(result, {type}, brand) = {}
            IN  ~InList(base_domain, BRAND_DOMAINS[b].official_domains) =>
                    /\ in_base => Has("brand_impersonation", 90)
                    /\ (~in_base /\ in_sub) =>
                           Has("brand_in_subdomain", 85) /\ None("brand_impersonation")
                    /\ (~in_base /\ ~in_sub /\ in_path) =>
                           Has("brand_in_path", 70) /\ None("brand_impersonation")

\* C11: for a url whose userinfo part before the @ is a canonical domain of
\* brand B (with or without www., a port or a password) and whose real host
\* is no canonical domain of B, analyze_url_heuristic returns an
\* at_symbol_redirect issue of severity 0.90 and at least one brand issue
\* naming B, with the verdict phishing.
C11_UserinfoBrandReported ==
    (fn = "analyze_url_heuristic" /\ pc \notin {"call", "line523"}) =>
        \A b \in 1..Len(BRAND_DOMAINS) :
            (\E k \in 1..Len(BRAND_DOMAINS[b].official_domains) :
                 url \in UserinfoUrls[BRAND_DOMAINS[b].official_domains[k]])
            => /\ pc = "return"
               /\ \E i \in 1..Len(result.issues) :
                      /\ result.issues[i].type = "at_symbol_redirect"
                      /\ result.issues[i].severity = Sev(90)
               /\ IssuesFor(result.issues,
                            {"brand_impersonation", "brand_in_subdomain", "brand_in_path",
                             "typosquatting"},
                            BRAND_DOMAINS[b].brand) # {}
               /\ result.verdict = "phishing"

\* C12: every (score, verdict) pair an endpoint returns (URL, QR, e-mail,
\* phone; heuristic-only or after the ensemble) follows one threshold
\* function: safe below 0.30, suspicious from 0.30 to below 0.65, phishing
\* from 0.65 on.
C12_OneVerdictFunction ==
    (pc = "return" /\ fn \in {"analyze_url", "analyze_qr", "analyze_email",
                              "analyze_phone_endpoint"}) =>
        result.verdict = IF result.score < Sev(30) THEN "safe"
                         ELSE IF result.score < Sev(65) THEN "suspicious"
                         ELSE "phishing"

\* C13: when the page fetch fails or the content analysis raises, the URL
\* analysis still returns: no exception reaches the caller, and unless a
\* blacklist issue was found the issues, the heuristic score and (without
\* the learned model) the final score and verdict are those of
\* analyze_url_heuristic.
C13_FetchFailureDegrades ==
    (/\ fn \in {"analyze_url", "analyze_qr"} /\ pc # "call"
     /\ \/ fetch = "fail"
        \/ analyze_page_content(url, page, fetch, OSINT_CACHE).outcome = "raise") =>
        /\ pc = "return"
        /\ analyze_page_content(url, page, fetch, OSINT_CACHE).issues = <<>> =>
            /\ result.issues = analyze_url_heuristic(url).issues
            /\ result.heuristic_score \in Round4(analyze_url_heuristic(url).score)
            /\ ~is_trained =>
                /\ result.score = result.heuristic_score
                /\ result.verdict = analyze_url_heuristic(url).verdict

\* C14: when the learned URL model is not loaded or its prediction fails, the
\* URL analysis returns the heuristic score and the heuristic verdict as the
\* final result, and no error reaches the caller.
C14_LearnedFaultFallsBack ==
    (/\ fn \in {"analyze_url", "analyze_qr"} /\ pc # "call"
     /\ ~is_trained \/ predict_fault) =>
        /\ pc = "return"
        /\ result.score = result.heuristic_score
        /\ result.verdict = IF result.issues = analyze_url_heuristic(url).issues
                            THEN analyze_url_heuristic(url).verdict
                            ELSE ApiVerdict(result.heuristic_score)

\* The attribute is one urlparse accepts where lines 191-192 and 269-270 call it.
NoFault(attr) == ~(StartsWith(attr, "http") /\ UrlParse(attr).error)
IframeNoFault(iframe) == NoFault(iframe.src)

\* The issues of every detector that does not fault: those of the url, of the
\* blacklist and of the page checks, a form or iframe on which a check faults
\* contributing nothing.
IsolatedIssues ==
    analyze_url_heuristic(url).issues
    \o check_domain_osint(PageUrl(url), OSINT_CACHE)
    \o PageIssues([page EXCEPT !.forms = SelectSeq(page.forms, NoFault),
                               !.iframes = SelectSeq(page.iframes, IframeNoFault)],
                  Lower(UrlParse(PageUrl(url)).netloc),
                  IsTrustedBrand(Lower(UrlParse(PageUrl(url)).netloc)))

\* C15: a detector that faults during an analysis contributes no issue and
\* stops nothing: the analysis returns, and the issues of all the other
\* detectors, found before and after the faulty one, are kept and scored.
C15_DetectorFaultIsolated ==
    (/\ fn \in {"analyze_url", "analyze_qr"} /\ pc # "call"
     /\ fetch # "fail" /\ ~predict_fault /\ ~UrlParse(PageUrl(url)).error) =>
        /\ pc = "return"
        /\ result.issues = IsolatedIssues
        /\ result.issues # analyze_url_heuristic(url).issues =>
               result.heuristic_score \in Recalculated(IsolatedIssues)

\* The additive score of a phone number: 0.1, plus 0.5 for a digit count
\* outside [10,15], 0.6 for a high-risk prefix, 0.3 for a number outside the
\* home region without a high-risk prefix, 0.4 for a toll-free or
\* administrative prefix.
AdditiveScore(cleaned, digits) ==
    Sev(10)
    + (IF Len(digits) < 10 \/ Len(digits) > 15 THEN Sev(50) ELSE 0)
    + (IF \E k \in 1..Len(HIGH_RISK_PREFIXES) : StartsWith(cleaned, HIGH_RISK_PREFIXES[k])
       THEN Sev(60) ELSE 0)
    + (IF /\ ~\E k \in 1..Len(HIGH_RISK_PREFIXES) : StartsWith(cleaned, HIGH_RISK_PREFIXES[k])
          /\ ~\E p \in {"+7", "+996", "+998"} : StartsWith(cleaned, p)
       THEN Sev(30) ELSE 0)
    + (IF \E p \in {"+7800", "+7495", "+7499"} : StartsWith(cleaned, p) THEN Sev(40) ELSE 0)

\* The issues of the given type in a returned result.
PhoneIssuesOf(type) ==
    {k \in 1..Len(result.details.issues) : result.details.issues[k].type = type}

\* C16: without a learned model, analyze_phone returns for a number with
\* digits the additive score capped at 1.0, at most one high_risk_country
\* issue and never together with foreign_number, and for a number with a
\* high-risk prefix such an issue, a score of 0.6 or more and a verdict that
\* is not safe.
C16_AdditivePhoneScore ==
    (fn = "analyze_phone" /\ pc # "call" /\ ~phone_classifier /\ PhoneDigits(phone) # "") =>
        /\ pc = "return"
        /\ result.score = Min2(One, AdditiveScore(PhoneCleaned(phone), PhoneDigits(phone)))
        /\ Cardinality(PhoneIssuesOf("high_risk_country")) <= 1
        /\ PhoneIssuesOf("high_risk_country") = {} \/ PhoneIssuesOf("foreign_number") = {}
        /\ (\E k \in 1..Len(HIGH_RISK_PREFIXES) :
                StartsWith(PhoneCleaned(phone), HIGH_RISK_PREFIXES[k])) =>
               /\ PhoneIssuesOf("high_risk_country") # {}
               /\ result.score >= Sev(60)
               /\ result.verdict \in {"suspicious", "phishing"}

\* C17: with a learned model loaded, analyze_phone returns for a number with
\* digits the larger of the additive score and the learned score, capped at
\* 1.0.
C17_PhoneScoreIsMax ==
    (fn = "analyze_phone" /\ pc # "call" /\ phone_classifier /\ PhoneDigits(phone) # "") =>
        /\ pc = "return"
        /\ result.score = Min2(One, Max2(PhoneScore(phone), ml_score))

\* C18: a malformed phone input, one whose digit count is outside [10,15],
\* none at all included, is returned with an invalid_length issue and a
\* verdict that is not safe.
C18_MalformedPhoneCautious ==
    (/\ fn = "analyze_phone" /\ pc # "call"
     /\ Len(PhoneDigits(phone)) < 10 \/ Len(PhoneDigits(phone)) > 15) =>
        /\ pc = "return"
        /\ "issues" \in DOMAIN result.details
        /\ \E k \in 1..Len(result.details.issues) :
               result.details.issues[k].type = "invalid_length"
        /\ result.verdict # "safe"

\* C19: check_domain_osint returns the osint_blacklist issue (severity 1.0)
\* exactly when the url's host, lowercased and not empty, is an entry of the
\* snapshot or the host of an entry, or the url itself is an entry; a host
\* that is only part of an entry, or an empty host, gives no issue.
C19_BlacklistMembership ==
    (pc = "return" /\ fn = "check_domain_osint") =>
        LET HostOf(u) == Before(IF Contains(u, "://") THEN From(u, Find(u, "://") + 3) ELSE u,
                                "/")
            host == Lower(HostOf(url))
            listed == \/ /\ host # ""
                         /\ \E k \in 1..Len(OSINT_CACHE) :
                                host \in {OSINT_CACHE[k], Lower(HostOf(OSINT_CACHE[k]))}
                      \/ \E k \in 1..Len(OSINT_CACHE) : OSINT_CACHE[k] = url
        IN  result = IF listed THEN <<OSINT_BLACKLIST>> ELSE <<>>

\* C20: over every sequence of calls of get_openphish_list, a request that
\* fails (exception, timeout, status other than 200) leaves _OSINT_CACHE and
\* _OSINT_LAST_FETCH as they were and the call returns; the list returned is
\* always the content of the last fetch that succeeded, empty before the
\* first one.
C20_LastGoodSnapshotKept ==
    /\ [](fn = "get_openphish_list" /\ pc = "return" => result = last_good)
    /\ [][(fn = "get_openphish_list" /\ resp'.outcome # "none" /\ ~FetchSucceeded(resp'))
          => /\ OSINT_CACHE' = OSINT_CACHE
             /\ OSINT_LAST_FETCH' = OSINT_LAST_FETCH
             /\ pc' = "return"
             /\ result' = OSINT_CACHE]_vars

\* A request has failed after the snapshot went stale, and the entries of the
\* earlier fetch were returned.
C20_Witness ==
    /\ fn = "get_openphish_list" /\ pc = "return"
    /\ resp.outcome # "none" /\ ~FetchSucceeded(resp)
    /\ clock - OSINT_LAST_FETCH >= CACHE_SECONDS
    /\ Len(result) = 2

\* The issue list with its i-th and (i+1)-th issue exchanged.
SwapNeighbours(issues, i) == [issues EXCEPT ![i] = issues[i + 1], ![i + 1] = issues[i]]

\* The analyses that have a refresh of the feed in progress: the request is
\* out, or its answer is about to be stored.
Refreshing == {t \in REQUESTS : req_pc[t] \in {"line58", "line60"}}

\* C21: for every interleaving of concurrent URL analyses at most one feed
\* refresh is in progress at any time, and the snapshot changes only by
\* being replaced as a whole with the list of a feed that was received.
C21_SingleRefresher ==
    /\ [](Cardinality(Refreshing) <= 1)
    /\ [][OSINT_CACHE' # OSINT_CACHE =>
              \E t \in REQUESTS : /\ req_pc[t] = "line60"
                                  /\ OSINT_CACHE' = FeedLines(req_resp[t].text)]_vars

\* C22: aggregation does not depend on the order of the issues: exchanging
\* any two neighbouring issues of the list, hence any permutation of it, gives
\* the same score and verdict; and the result of combine_scores is determined
\* by the heuristic score, the learned score and the issues, whatever verdict
\* labels are passed in.
C22_OrderIndependent ==
    /\ (pc = "return" /\ fn = "analyze_url_heuristic") =>
           \A i \in 1..(Len(all_issues) - 1) :
               /\ HeuristicScore(SwapNeighbours(all_issues, i)) = score
               /\ HeuristicVerdict(HeuristicScore(SwapNeighbours(all_issues, i)))
                      = result.verdict
    /\ (pc = "return" /\ fn = "combine_scores") =>
           /\ result.score \in CombineFinal(CombineBranch(ml_score, heuristic_score,
                                                          heuristic_issues))
           /\ result.verdict = CombineVerdict(result.score)

\* A list that is not in descending order, its most severe issue last, has
\* been aggregated.
C22_Witness ==
    /\ pc = "return" /\ fn = "analyze_url_heuristic"
    /\ Len(all_issues) >= 3
    /\ all_issues[1].severity < all_issues[2].severity
    /\ \A i \in 1..(Len(all_issues) - 1) :
           all_issues[i].severity < all_issues[Len(all_issues)].severity

\* The host of a netloc: without userinfo and port, in lower case.
HostOf(netloc) ==
    Lower(Split(From(netloc, RFind(netloc, "@") + 1), ":")[1])

\* The registrable domain of the host of a url.
Registrable(u) == extract_base_domain(HostOf(UrlParse(u).netloc))

\* a is a subdomain of b.
IsSubdomainOf(a, b) == EndsWith(a, "." \o b)

\* The form target goes to another site than the page: the registrable
\* domains differ and neither host is a subdomain of the other.
IsExternalTarget(target, page_url) ==
    /\ Registrable(target) # Registrable(page_url)
    /\ ~IsSubdomainOf(HostOf(UrlParse(target).netloc), HostOf(UrlParse(page_url).netloc))
    /\ ~IsSubdomainOf(HostOf(UrlParse(page_url).netloc), HostOf(UrlParse(target).netloc))

\* C23: of the forms with an absolute submission target, exactly those whose
\* target is on another site give an external_form_action issue of severity
\* 0.85; a target whose host merely contains the page's host, such as
\* bank.kz.evil.com on a page of bank.kz, is among them.
C23_ExternalFormAction ==
    (fn = "analyze_page_content" /\ pc = "return") =>
        /\ Cardinality({k \in 1..Len(result) : result[k].type = "external_form_action"})
           = Cardinality({k \in 1..Len(page.forms) :
                             /\ StartsWith(page.forms[k], "http")
                             /\ IsExternalTarget(page.forms[k], url)})
        /\ \A k \in 1..Len(result) :
               result[k].type = "external_form_action" => result[k].severity = Sev(85)

\* C24: for every combined issue list, the heuristic score and verdict that
\* analyze_url and analyze_qr recompute inline are the score and the verdict
\* the aggregator of analyze_url_heuristic gives for the same list.
C24_InlineEqualsAggregator ==
    (fn \in {"analyze_url", "analyze_qr"} /\ pc = "line506") =>
        /\ result.score \in Round4(HeuristicScore(all_issues))
        /\ result.verdict = HeuristicVerdict(HeuristicScore(all_issues))

\* A list of several issues has been recalculated to a phishing verdict, and
\* the rounding changed the score.
C24_Witness ==
    /\ fn = "analyze_qr" /\ pc = "line506"
    /\ Len(all_issues) >= 3
    /\ result.score # HeuristicScore(all_issues)
    /\ result.verdict = "phishing"

\* C25: evidence is cumulative: the heuristic score of an issue list is
\* greater than or equal to the score of the same list without its last
\* issue, when that shorter list is not empty.
C25_EvidenceCumulative ==
    (pc = "return" /\ fn = "analyze_url_heuristic" /\ Len(all_issues) >= 2) =>
        score >= HeuristicScore(SubSeq(all_issues, 1, Len(all_issues) - 1))

\* C26: analyze_url_heuristic returns the verdict safe exactly when no
\* detector produced an issue: every issue has a severity of 0.35 or more,
\* and every non-empty issue list scores 0.30 or more.
C26_SafeIffNoIssue ==
    (pc = "return" /\ fn = "analyze_url_heuristic") =>
        /\ \A i \in 1..Len(result.issues) : result.issues[i].severity >= Sev(35)
        /\ result.issues # <<>> => score >= Sev(30) /\ result.score >= Sev(30)
        /\ result.verdict = "safe" <=> result.issues = <<>>

\* A url has been analysed whose only finding is the missing https, and a
\* list of one issue of the lowest severity has been aggregated.
C26_Witness ==
    /\ pc = "return" /\ fn = "analyze_url_heuristic"
    /\ Len(result.issues) = 1
    /\ result.verdict = "suspicious"
    /\ \/ result.issues[1].type = "no_https"
       \/ result.issues[1].severity = Sev(35)

\* C27: a critical heuristic finding is not overridden to safe by the learned
\* model: for an issue list with an issue of severity 0.85 or more (all
\* severities 0.35 or more) and the heuristic score the aggregator gives for
\* that list, combine_scores returns a verdict other than safe whatever the
\* learned score.
C27_CriticalNeverSafe ==
    (/\ pc = "return" /\ fn = "combine_scores"
     /\ \A i \in 1..Len(heuristic_issues) :
            "severity" \in DOMAIN heuristic_issues[i] /\ heuristic_issues[i].severity >= Sev(35)
     /\ \E i \in 1..Len(heuristic_issues) : heuristic_issues[i].severity >= Sev(85)
     /\ heuristic_score \in Round4(HeuristicScore(heuristic_issues))) =>
        result.verdict \in {"suspicious", "phishing"}

\* A list with one critical and one weak issue has been combined with the
\* learned score 0 and is reported as suspicious.
C27_Witness ==
    /\ pc = "return" /\ fn = "combine_scores"
    /\ Len(heuristic_issues) = 2
    /\ heuristic_issues[1].severity = Sev(85) /\ heuristic_issues[2].severity = Sev(35)
    /\ heuristic_score = Dec4(7200)
    /\ ml_score = 0
    /\ result.verdict = "suspicious"

\* C28: whenever start_osint_scanner is the call that returned last, the
\* thread in _scanner_thread is alive and the stop event is clear, whatever
\* calls of start_osint_scanner and stop_osint_scanner came before.
C28_ScannerRunsAfterStart ==
    last_call = "start" => IsAlive(scanner_thread) /\ ~stop_event

\* The reply is one after which api_request makes another pass of its loop.
IsRetryReply(r) ==
    \/ r.outcome = "response" /\ r.status_code \in {429, 500, 502, 503, 504}
    \/ r.outcome \in {"TimeoutException", "ConnectError"}

\* What api_request sleeps after reply r, w being the sleeps made so far: 2 s
\* after a timeout or connection error, else 3 s doubled once per earlier
\* status retry.
ExpectedWait(r, w) ==
    IF r.outcome # "response" THEN 2
    ELSE CASE Cardinality({i \in DOMAIN w : w[i] # 2}) = 0 -> 3
           [] Cardinality({i \in DOMAIN w : w[i] # 2}) = 1 -> 6
           [] OTHER -> 12

\* C29: api_request makes at most 3 HTTP requests and returns. A 200 response
\* ends it with the JSON body; a 429/500/502/503/504 status makes it wait 3 s,
\* doubled at each such retry, and a timeout or connection error makes it wait
\* 2 s, and only after one of these is another request made; any other status
\* or exception ends it with None at once; and with 3 requests made and none
\* of them final it returns None.
C29_ApiRequestTerminates ==
    /\ [](sent <= 3)
    /\ [][sent' = sent + 1 =>
            /\ sent > 0 => IsRetryReply(api_resp)
            /\ IF IsRetryReply(api_resp')
               THEN /\ api_pc' = "line104"
                    /\ waits' = Append(waits, ExpectedWait(api_resp', waits))
               ELSE /\ api_pc' = "return" /\ waits' = waits
                    /\ api_result' =
                         IF api_resp'.status_code = 200 /\ api_resp'.json # "JSONDecodeError"
                         THEN api_resp'.json ELSE PyNone]_vars
    /\ [][(api_pc' = "return" /\ api_pc # "return" /\ sent' = sent) =>
            /\ api_result' = PyNone
            /\ sent = 3 \/ method \notin {"GET", "POST"}]_vars
    /\ [](api_pc = "return" /\ sent = 3 /\ IsRetryReply(api_resp) => api_result = PyNone)
    /\ <>(api_pc = "return")

\* Three requests, answered 503, timeout, 500: sleeps of 3, 2 and 6 s, then None.
C29_Witness ==
    /\ api_pc = "return" /\ sent = 3 /\ waits = <<3, 2, 6>>
    /\ api_resp.status_code = 500 /\ api_result = PyNone

\* C30: in group link moderation every safe confirmation sent is for a URL
\* whose verdict is safe, so none is sent for a suspicious or phishing one,
\* and a URL judged malicious is the last URL of its message to be judged.
C30_SafeConfirmationOnlyForSafe ==
    /\ \A k \in DOMAIN replies :
           replies[k].text = "safe" => answers[replies[k].url].verdict = "safe"
    /\ \A k \in DOMAIN judged : IsMalicious(answers[judged[k]]) => k = Len(judged)

====
